---- MODULE Spec2Model ----
(***************************************************************************)
(* Command-buffer construction of the Vulkan driver in src/vulkan/device.c *)
(* as a state machine: the batch / relocation engine (chained batch        *)
(* buffers, relocation lists, submission packaging in EndCommandBuffer)    *)
(* and the flush-state protocol run before each draw or dispatch.          *)
(*                                                                         *)
(* Sizes and offsets are in bytes, as in the code.  Bit masks are sets of  *)
(* bit positions; Bits(n) is the set of bit positions of the integer n.    *)
(* An assertion of the code that fails puts the run in the state           *)
(* pc = "Aborted" (the abort reason is kept in cmd_buffer.abort).          *)
(***************************************************************************)
EXTENDS Integers, Sequences, FiniteSets, TLC

VARIABLES
  pc,          \* lifecycle of the command buffer: Initial, Created,
               \* Recording, InPass (recording inside a render pass),
               \* Executable, Aborted (an assertion of the code failed)
  cmd_buffer,  \* struct anv_cmd_buffer with its two chains of anv_batch_bo
  bo_offset,   \* bo->offset of every buffer object (its GPU address)
  bo_index,    \* bo->index of every buffer object (scratch of End)
  call,        \* ghost: the last API call and what it saw before it ran
  mutex,       \* device->mutex: NULL or the thread that holds it
  thread,      \* the threads that end a command buffer each: the command
               \* buffer, the position in anv_EndCommandBuffer, the
               \* anv_cmd_buffer_add_bo calls still to make
  PipelineLayouts, \* the struct anv_pipeline_layout objects of the device
  lists,       \* two struct anv_reloc_list with their arrays, and, ghost,
               \* the last call on them
  vector       \* a struct anv_vector with its storage, and, ghost, the
               \* elements it holds and the last call on it

vars ==
  <<pc, cmd_buffer, bo_offset, bo_index, call, mutex, thread, PipelineLayouts,
    lists, vector>>

----------------------------------------------------------------------------
(* Bounds of the model *)

\* BATCH_SIZE is 8192 bytes in the code; the model's batch buffers hold
\* BatchQwords qwords so that chaining happens after a few calls.
BatchQwords == 48
\* batch buffer objects the batch_bo_pool can hand out
MaxBbos == 6
\* calls the application chooses freely, in SpecBatch
MaxBatchCalls == 6
\* calls the application chooses freely, in Spec
MaxCalls == 6
\* calls the application chooses freely, in SpecDraw
MaxDrawCalls == 4
\* calls the application chooses freely, in SpecSets
MaxSetCalls == 5

BATCH_SIZE == 8 * BatchQwords

----------------------------------------------------------------------------
(* Helpers *)

NULL == 0

\* no struct anv_vector yet
NoVector == <<>>

RECURSIVE Bits(_)
Bits(n) == IF n = 0 THEN {}
           ELSE {k + 1 : k \in Bits(n \div 2)} \cup (IF n % 2 = 1 THEN {0} ELSE {})

RECURSIVE SetToSeq(_)
\* for_each_bit: the members of a set of bit positions, lowest first
SetToSeq(S) == IF S = {} THEN <<>>
               ELSE LET m == CHOOSE x \in S : \A y \in S : x <= y
                    IN <<m>> \o SetToSeq(S \ {m})

align_u32(v, a) == ((v + a - 1) \div a) * a

\* a - b in uint32_t, for a and b below 2^31: the difference modulo 2^32 as
\* <<high half, low half>> of 16 bits each
uint32_sub(a, b) ==
  IF a >= b
  THEN <<(a - b) \div 65536, (a - b) % 65536>>
  ELSE <<65535 - ((b - a - 1) \div 65536), 65535 - ((b - a - 1) % 65536)>>

CeilDiv(a, b) == (a + b - 1) \div b

\* Shader stages (enum VkShaderStage) and their ..._BIT masks
VK_SHADER_STAGE_VERTEX == 0
VK_SHADER_STAGE_TESS_CONTROL == 1
VK_SHADER_STAGE_TESS_EVALUATION == 2
VK_SHADER_STAGE_GEOMETRY == 3
VK_SHADER_STAGE_FRAGMENT == 4
VK_SHADER_STAGE_COMPUTE == 5
VK_SHADER_STAGE_COMPUTE_BIT == {VK_SHADER_STAGE_COMPUTE}
VK_SHADER_STAGE_FRAGMENT_BIT == {VK_SHADER_STAGE_FRAGMENT}
GraphicsStages == {VK_SHADER_STAGE_VERTEX, VK_SHADER_STAGE_TESS_CONTROL,
                   VK_SHADER_STAGE_TESS_EVALUATION, VK_SHADER_STAGE_GEOMETRY,
                   VK_SHADER_STAGE_FRAGMENT}

MAX_RTS == 8
MAX_SETS == 8
MAX_VBS == 32

GEN8_MI_BATCH_BUFFER_START_length == 3

\* Lengths in dwords of the GEN8 instructions the command buffer emits
\* (GEN8_<op>_length of the generated pack header).
cmd_length(op) ==
  CASE op = "MI_BATCH_BUFFER_START" -> GEN8_MI_BATCH_BUFFER_START_length
    [] op = "MI_BATCH_BUFFER_END" -> 1
    [] op = "MI_NOOP" -> 1
    [] op = "STATE_BASE_ADDRESS" -> 16
    [] op = "PIPE_CONTROL" -> 6
    [] op = "PIPELINE_SELECT" -> 1
    [] op = "3DSTATE_SAMPLER_STATE_POINTERS" -> 2
    [] op = "3DSTATE_BINDING_TABLE_POINTERS" -> 2
    [] op = "MEDIA_INTERFACE_DESCRIPTOR_LOAD" -> 4
    [] op = "3DSTATE_SCISSOR_STATE_POINTERS" -> 2
    [] op = "3DSTATE_VIEWPORT_STATE_POINTERS_CC" -> 2
    [] op = "3DSTATE_VIEWPORT_STATE_POINTERS_SF_CLIP" -> 2
    [] op = "3DSTATE_SF" -> 4
    [] op = "3DSTATE_RASTER" -> 5
    [] op = "3DSTATE_WM_DEPTH_STENCIL" -> 3
    [] op = "3DSTATE_CC_STATE_POINTERS" -> 2
    [] op = "3DSTATE_VF" -> 2
    [] op = "3DSTATE_INDEX_BUFFER" -> 5
    [] op = "3DSTATE_DRAWING_RECTANGLE" -> 4
    [] op = "3DPRIMITIVE" -> 7
    [] op = "MI_LOAD_REGISTER_MEM" -> 4
    [] op = "MI_LOAD_REGISTER_IMM" -> 3
    [] op = "GPGPU_WALKER" -> 15
    [] op = "MEDIA_STATE_FLUSH" -> 2
    [] op = "3DSTATE_DEPTH_BUFFER" -> 8
    [] op = "3DSTATE_HIER_DEPTH_BUFFER" -> 5
    [] op = "3DSTATE_STENCIL_BUFFER" -> 5
    [] op = "3DSTATE_CLEAR_PARAMS" -> 3
    [] OTHER -> 1


----------------------------------------------------------------------------
(* Buffer objects.  Batch buffer objects are 1..MaxBbos; the others are    *)
(* the device's pools and the buffers and images the application binds.    *)

BatchBos == 1 .. MaxBbos
DYNAMIC_STATE_BO == MaxBbos + 1      \* device->dynamic_state_block_pool.bo
INSTRUCTION_BO == MaxBbos + 2        \* device->instruction_block_pool.bo
BUFFER_BO == MaxBbos + 3             \* the bo of a bound buffer
IMAGE_BO == MaxBbos + 4              \* the bo of an attachment image
OtherBos == {DYNAMIC_STATE_BO, INSTRUCTION_BO, BUFFER_BO, IMAGE_BO}
Bos == BatchBos \cup OtherBos

\* GPU addresses the kernel may give a bo (bo->offset); 0 until first bound
Addresses == {0, 1}

\* the bos the model lets the kernel move
MovableBos == {IMAGE_BO}

\* the emits of SpecBatch, <<dwords, bo of the address field>>: one dword,
\* a state packet with an address, and about half a block
EmitKinds == {<<1, NULL>>, <<16, IMAGE_BO>>, <<BatchQwords - 1, NULL>>}

----------------------------------------------------------------------------
(* struct anv_batch_bo, struct anv_reloc_list entries, instructions        *)

\* a batch bo that is not allocated.  mem is what the dwords of the block
\* hold that a surface-state block has had written, as <<dword, value>>; a
\* dword not in it is as the block pool handed it out, read as 0
NoBbo == [live |-> FALSE, prev_batch_bo |-> NULL, first_reloc |-> 0,
          num_relocs |-> 0, length |-> 0, data |-> <<>>, mem |-> {}]

\* the value of dword d of a block
ReadWord(mem, d) ==
  IF \E w \in mem : w[1] = d THEN (CHOOSE w \in mem : w[1] = d)[2] ELSE 0

\* *(uint32_t *)(map + 4 * d) = v
WriteWord(mem, d, v) == {w \in mem : w[1] # d} \cup {<<d, v>>}

\* memcpy(state.map, surface_state.map, 64) or fill_buffer_surface_state:
\* dword k of a SURFACE_STATE is written as 0 - (k + 1), a value that is no
\* offset of the block
WriteSurfaceState(mem, offset) ==
  {w \in mem : w[1] \notin offset \div 4 .. offset \div 4 + 15}
  \cup {<<offset \div 4 + k, 0 - (k + 1)>> : k \in 0 .. 15}

\* one instruction: its opcode, its length in dwords, its address fields
\* (each <<dword of the field, bo, delta>>, a relocation when packed), its
\* pointer payload val (an offset from a state base address) and, ghost,
\* the surface-state block ref in which that payload was allocated; sub is
\* the _3DCommandSubOpcode of the per-stage pointer instructions
Instr(op, addrs, val, ref) ==
  [op |-> op, dw |-> cmd_length(op), addrs |-> addrs, val |-> val,
   ref |-> ref, sub |-> 0]

\* a per-stage pointer instruction with its sub-opcode
InstrSub(op, sub, val, ref) ==
  [op |-> op, dw |-> cmd_length(op), addrs |-> <<>>, val |-> val,
   ref |-> ref, sub |-> sub]

\* an instruction of variable length (anv_batch_emitn)
InstrN(op, n, addrs) ==
  [op |-> op, dw |-> n, addrs |-> addrs, val |-> 0, ref |-> NULL, sub |-> 0]

\* an instruction written into a batch bo at byte offset off; chain tells
\* the dwords written by the chaining callback from the caller's emits
Placed(ins, off, chain) ==
  [off |-> off, op |-> ins.op, dw |-> ins.dw, addrs |-> ins.addrs,
   val |-> ins.val, ref |-> ins.ref, sub |-> ins.sub, chain |-> chain]

Reloc(offset, target_bo, delta, presumed) ==
  [offset |-> offset, bo |-> target_bo, delta |-> delta,
   presumed_offset |-> presumed, target_handle |-> target_bo]

----------------------------------------------------------------------------
(* Relocation lists and batches (device.c 716-918)                         *)

\* anv_reloc_list_add: append an entry that records the target's current
\* address as presumed; ret is target_bo->offset + delta
anv_reloc_list_add(list, offset, target_bo, delta) ==
  Append(list, Reloc(offset, target_bo, delta, bo_offset[target_bo]))

\* anv_reloc_list_append: copy other's entries, offsets shifted by offset
anv_reloc_list_append(list, other, offset) ==
  list \o [i \in 1 .. Len(other) |->
             [other[i] EXCEPT !.offset = other[i].offset + offset]]

\* anv_batch_bo_create: a batch bo from the device's batch_bo_pool, which
\* recycles freed ones; num_relocs = 0 and prev_batch_bo = NULL.  The other
\* fields of the malloc'ed struct are set by the callers.
FreeBbos(cb) == {b \in BatchBos : ~cb.bbo[b].live}

NewBbo(cb) == CHOOSE b \in FreeBbos(cb) : \A c \in FreeBbos(cb) : b <= c

anv_batch_bo_create(cb) ==
  IF FreeBbos(cb) = {}
  THEN [cb EXCEPT !.bound = TRUE, !.p = cb.last_batch_bo]   \* outside the model
  ELSE [cb EXCEPT !.bbo[NewBbo(cb)] = [NoBbo EXCEPT !.live = TRUE],
                  !.p = NewBbo(cb)]

\* anv_batch_bo_destroy: back to the pool; ghost: g_freed lists the nodes
\* the call released and whether each was allocated when released
anv_batch_bo_destroy(cb, b) ==
  [cb EXCEPT !.bbo[b] = NoBbo,
             !.g_freed = Append(@, [bbo |-> b, live |-> cb.bbo[b].live])]

\* a variant of anv_batch_bo_start that keeps nothing free at the end of
\* the block
anv_batch_bo_start_no_reserve(cb, b, batch_padding) ==
  [cb EXCEPT !.batch_start = b,
             !.batch_next = 0,
             !.batch_end = BATCH_SIZE,
             !.bbo[b].first_reloc = Len(cb.batch_relocs),
             !.bbo[b].data = <<>>]

\* a variant of anv_batch_bo_start that starts the slice of bbo at the head
\* of the relocation list
anv_batch_bo_start_slice_at_head(cb, b, batch_padding) ==
  [cb EXCEPT !.batch_start = b,
             !.batch_next = 0,
             !.batch_end = BATCH_SIZE - batch_padding,
             !.bbo[b].first_reloc = 0,
             !.bbo[b].data = <<>>]

\* anv_batch_bo_start: point the batch cursor at bbo, keeping batch_padding
\* bytes free at the end of the block
anv_batch_bo_start(cb, b, batch_padding) ==
  [cb EXCEPT !.batch_start = b,
             !.batch_next = 0,
             !.batch_end = BATCH_SIZE - batch_padding,
             !.bbo[b].first_reloc = Len(cb.batch_relocs),
             !.bbo[b].data = <<>>]

\* anv_batch_bo_finish: record the node's length and its relocation count
anv_batch_bo_finish(cb, b) ==
  LET c == [cb EXCEPT !.bbo[b].length = cb.batch_next,
                      !.bbo[b].num_relocs =
                          Len(cb.batch_relocs) - cb.bbo[b].first_reloc]
  IN IF cb.batch_start = b THEN c
     ELSE [c EXCEPT !.abort = "assert(batch->start == bbo->bo.map)"]

\* store an instruction at byte offset off of the batch's current block
BatchWrite(cb, ins, off, chain) ==
  [cb EXCEPT !.bbo[cb.batch_start].data = Append(@, Placed(ins, off, chain))]

\* the emit_reloc that records the location without subtracting
\* batch->start, the address of the block
anv_batch_emit_reloc_absolute(cb, location, bo, delta) ==
  [cb EXCEPT !.batch_relocs =
     anv_reloc_list_add(@, BATCH_SIZE * cb.batch_start + location, bo, delta)]

\* anv_batch_emit_reloc: location - batch->start is the entry's offset
anv_batch_emit_reloc(cb, location, bo, delta) ==
  [cb EXCEPT !.batch_relocs = anv_reloc_list_add(@, location, bo, delta)]

RECURSIVE pack_addrs(_, _, _)
pack_addrs(cb, p, addrs) ==
  IF addrs = <<>> THEN cb
  ELSE pack_addrs(anv_batch_emit_reloc(cb, p + 4 * addrs[1][1],
                                       addrs[1][2], addrs[1][3]),
                  p, Tail(addrs))

\* <cmd>_pack: write the instruction at p; every address field that names a
\* bo adds a relocation for the field's location
cmd_pack(cb, p, ins, chain) ==
  pack_addrs(BatchWrite(cb, ins, p, chain), p, ins.addrs)

RECURSIVE anv_batch_emit_dwords(_, _)
RECURSIVE anv_cmd_buffer_chain_batch(_)

\* batch->end += GEN8_MI_BATCH_BUFFER_START_length * 4, and the assert
\* that this is the end of the block
ReleaseJumpReserve(cb) ==
  [cb EXCEPT !.batch_end = @ + GEN8_MI_BATCH_BUFFER_START_length * 4,
             !.abort = IF cb.batch_end + GEN8_MI_BATCH_BUFFER_START_length * 4
                          = BATCH_SIZE
                       THEN @ ELSE "assert(batch->end == bo.map + bo.size)"]

\* the MI_BATCH_BUFFER_START to new_bbo packed at the pointer just handed out
EmitJump(cb, new_bbo) ==
  cmd_pack(cb, cb.p,
           Instr("MI_BATCH_BUFFER_START", <<<<1, new_bbo, 0>>>>, 0, NULL), TRUE)

\* pad out to a multiple of 2 dwords with one zero dword
PadToQword(cb) ==
  IF cb.batch_next % 8 # 0
  THEN [BatchWrite(cb, Instr("PAD", <<>>, 0, NULL), cb.batch_next, TRUE)
          EXCEPT !.batch_next = @ + 4]
  ELSE cb

\* a variant of anv_cmd_buffer_chain_batch that does not link the new batch
\* bo to the old one
anv_cmd_buffer_chain_batch_lost_link(cb) ==
  LET c1 == anv_batch_bo_create(cb)
      Chain(c, new_bbo) ==
        anv_batch_bo_start(
          [anv_batch_bo_finish(c, c.last_batch_bo) EXCEPT
              !.bbo[new_bbo].prev_batch_bo = NULL,
              !.last_batch_bo = new_bbo],
          new_bbo, GEN8_MI_BATCH_BUFFER_START_length * 4)
      Jump(c, new_bbo) ==
        Chain(PadToQword(EmitJump(
                anv_batch_emit_dwords(ReleaseJumpReserve(c),
                                      GEN8_MI_BATCH_BUFFER_START_length),
                new_bbo)),
              new_bbo)
      Extend(c) == Jump(c, c.p)
  IN Extend(c1)

\* anv_cmd_buffer_chain_batch, the extend_cb of a command buffer's batch:
\* create new_bbo, release the reserve, emit the jump to new_bbo into it,
\* pad, finish the old batch bo, link new_bbo->prev_batch_bo to it and
\* start the batch in new_bbo.  When anv_batch_bo_create fails (the host
\* or the pool has no memory: cb.alloc_fails) it returns that result with
\* nothing done; its two callers do not read the result.
anv_cmd_buffer_chain_batch(cb) ==
  LET c1 == anv_batch_bo_create(cb)
      Chain(c, old_bbo, new_bbo) ==
        anv_batch_bo_start(
          [anv_batch_bo_finish(c, c.last_batch_bo) EXCEPT
              !.bbo[new_bbo].prev_batch_bo = old_bbo,
              !.last_batch_bo = new_bbo],
          new_bbo, GEN8_MI_BATCH_BUFFER_START_length * 4)
      Jump(c, old_bbo, new_bbo) ==
        Chain(PadToQword(EmitJump(
                anv_batch_emit_dwords(ReleaseJumpReserve(c),
                                      GEN8_MI_BATCH_BUFFER_START_length),
                new_bbo)),
              old_bbo, new_bbo)
      Extend(c) == Jump(c, c.last_batch_bo, c.p)
  IN IF cb.alloc_fails THEN cb ELSE Extend(c1)

\* the cursor handed out in cb.p and advanced, and the assert
AdvanceCursor(cb, num_dwords) ==
  [cb EXCEPT !.p = cb.batch_next,
             !.batch_next = cb.batch_next + num_dwords * 4,
             !.abort = IF cb.batch_next + num_dwords * 4 <= cb.batch_end
                       THEN @ ELSE "assert(batch->next <= batch->end)"]

\* the emit that hands out the cursor it read before it extended the batch
anv_batch_emit_dwords_stale_pointer(cb, num_dwords) ==
  IF cb.batch_next + num_dwords * 4 > cb.batch_end
  THEN [AdvanceCursor(anv_cmd_buffer_chain_batch(cb), num_dwords)
          EXCEPT !.p = cb.batch_next]
  ELSE AdvanceCursor(cb, num_dwords)

\* anv_batch_emit_dwords: extend when the dwords do not fit, then hand out
\* the cursor (in cb.p) and advance it
anv_batch_emit_dwords(cb, num_dwords) ==
  IF cb.batch_next + num_dwords * 4 > cb.batch_end
  THEN AdvanceCursor(anv_cmd_buffer_chain_batch(cb), num_dwords)
  ELSE AdvanceCursor(cb, num_dwords)

\* the instruction packed at the pointer just handed out, and appended to
\* the ghost log g_log with the block and offset it was written to
PackAndLog(cb, ins) ==
  [cmd_pack(cb, cb.p, ins, FALSE) EXCEPT
     !.g_log = Append(@, [bbo |-> cb.batch_start,
                          ins |-> Placed(ins, cb.p, FALSE)])]

\* anv_batch_emit(batch, cmd, ...): emit_dwords, then pack at the pointer.
\* Nothing is emitted once the model has run out of batch bos.
anv_batch_emit(cb, ins) ==
  IF cb.bound THEN cb
  ELSE PackAndLog(anv_batch_emit_dwords(cb, ins.dw), ins)

----------------------------------------------------------------------------
(* The objects the application records with.  A handle is the position of  *)
(* the object in its table; NULL is no object.                             *)

Stages == VK_SHADER_STAGE_VERTEX .. VK_SHADER_STAGE_COMPUTE

SamplerTypes == {"SAMPLER", "COMBINED_IMAGE_SAMPLER"}
DynamicTypes == {"UNIFORM_BUFFER_DYNAMIC", "STORAGE_BUFFER_DYNAMIC"}
SurfaceTypes == {"COMBINED_IMAGE_SAMPLER", "SAMPLED_IMAGE", "STORAGE_IMAGE",
                 "UNIFORM_TEXEL_BUFFER", "STORAGE_TEXEL_BUFFER",
                 "UNIFORM_BUFFER", "STORAGE_BUFFER", "INPUT_ATTACHMENT"}
                \cup DynamicTypes

\* VkDescriptorSetLayoutBinding
Binding(descriptorType, arraySize, stageFlags) ==
  [descriptorType |-> descriptorType, arraySize |-> arraySize,
   stageFlags |-> stageFlags]

RECURSIVE ArraySizeBefore(_, _, _)
\* the sum of arraySize of the bindings before binding i whose type is in
\* types: the counters descriptor and dynamic_slot of the second loop of
\* anv_CreateDescriptorSetLayout
ArraySizeBefore(pBinding, i, types) ==
  IF i <= 1 THEN 0
  ELSE ArraySizeBefore(pBinding, i - 1, types)
       + (IF pBinding[i - 1].descriptorType \in types
          THEN pBinding[i - 1].arraySize ELSE 0)

AllTypes == SamplerTypes \cup SurfaceTypes

RECURSIVE LayoutSlots(_, _, _, _)
\* the anv_descriptor_slot entries of stage s for the bindings from i on
\* whose type is in types
LayoutSlots(pBinding, i, s, types) ==
  IF i > Len(pBinding) THEN <<>>
  ELSE (IF pBinding[i].descriptorType \in types /\ s \in pBinding[i].stageFlags
        THEN [j \in 1 .. pBinding[i].arraySize |->
                [index |-> ArraySizeBefore(pBinding, i, AllTypes) + j - 1,
                 dynamic_slot |->
                    IF types = SurfaceTypes
                       /\ pBinding[i].descriptorType \in DynamicTypes
                    THEN ArraySizeBefore(pBinding, i, DynamicTypes) + j - 1
                    ELSE -1]]
        ELSE <<>>)
       \o LayoutSlots(pBinding, i + 1, s, types)

\* anv_CreateDescriptorSetLayout: the struct anv_descriptor_set_layout
anv_CreateDescriptorSetLayout(pBinding) ==
  [num_dynamic_buffers |-> ArraySizeBefore(pBinding, Len(pBinding) + 1, DynamicTypes),
   count |-> ArraySizeBefore(pBinding, Len(pBinding) + 1, AllTypes),
   shader_stages |-> UNION {pBinding[i].stageFlags : i \in 1 .. Len(pBinding)},
   stage |-> [s \in Stages |->
      [surface_count |-> Len(LayoutSlots(pBinding, 1, s, SurfaceTypes)),
       surface_start |-> LayoutSlots(pBinding, 1, s, SurfaceTypes),
       sampler_count |-> Len(LayoutSlots(pBinding, 1, s, SamplerTypes)),
       sampler_start |-> LayoutSlots(pBinding, 1, s, SamplerTypes)]]]

\* the set layouts of the application.  The first: a dynamic uniform
\* buffer for the vertex stage, a uniform buffer for the geometry and
\* fragment stages, a sampler for the fragment stage and a storage buffer
\* for the compute stage.  The second: an array of three uniform buffers
\* and an array of two samplers, both for the vertex and compute stages.
DescriptorSetLayouts ==
  << anv_CreateDescriptorSetLayout(
       << Binding("UNIFORM_BUFFER_DYNAMIC", 1, {VK_SHADER_STAGE_VERTEX}),
          Binding("UNIFORM_BUFFER", 1, {VK_SHADER_STAGE_GEOMETRY,
                                        VK_SHADER_STAGE_FRAGMENT}),
          Binding("SAMPLER", 1, {VK_SHADER_STAGE_FRAGMENT}),
          Binding("STORAGE_BUFFER", 1, {VK_SHADER_STAGE_COMPUTE}) >>),
     anv_CreateDescriptorSetLayout(
       << Binding("UNIFORM_BUFFER", 3, {VK_SHADER_STAGE_VERTEX,
                                        VK_SHADER_STAGE_COMPUTE}),
          Binding("SAMPLER", 2, {VK_SHADER_STAGE_VERTEX,
                                 VK_SHADER_STAGE_COMPUTE}) >>) >>

RECURSIVE CountBefore(_, _, _, _)
\* l.stage[s].surface_count (or sampler_count) when the loop of
\* anv_CreatePipelineLayout reaches set: the sum over the sets before it
CountBefore(pSetLayouts, set, s, field) ==
  IF set = 0 THEN 0
  ELSE CountBefore(pSetLayouts, set - 1, s, field)
       + DescriptorSetLayouts[pSetLayouts[set]].stage[s][field]

\* anv_CreatePipelineLayout: the set layouts pasted together, each set's
\* surfaces and samplers starting where those of the sets before it end
anv_CreatePipelineLayout(pSetLayouts) ==
  [num_sets |-> Len(pSetLayouts),
   set |-> [i \in 0 .. Len(pSetLayouts) - 1 |->
              [layout |-> pSetLayouts[i + 1],
               surface_start |->
                 [s \in Stages |-> CountBefore(pSetLayouts, i, s, "surface_count")],
               sampler_start |->
                 [s \in Stages |-> CountBefore(pSetLayouts, i, s, "sampler_count")]]],
   stage |-> [s \in Stages |->
                [surface_count |->
                   CountBefore(pSetLayouts, Len(pSetLayouts), s, "surface_count"),
                 sampler_count |->
                   CountBefore(pSetLayouts, Len(pSetLayouts), s, "sampler_count")]]]

\* the pipeline layouts of the application: the first set layout alone, six
\* sets of the first set layout (more surfaces than a surface-state block
\* of the model holds), the second set layout alone, and MAX_SETS sets of
\* the first set layout (no pipeline of the model uses this one)
CreatedPipelineLayouts ==
  << anv_CreatePipelineLayout(<<1>>),
     anv_CreatePipelineLayout(<<1, 1, 1, 1, 1, 1>>),
     anv_CreatePipelineLayout(<<2>>),
     anv_CreatePipelineLayout([i \in 1 .. MAX_SETS |-> 1]) >>

\* struct anv_buffer, struct anv_surface_view (buffer views), anv_sampler
Buffers == << [bo |-> BUFFER_BO, offset |-> 0, size |-> 4096] >>

Views == << [bo |-> BUFFER_BO, offset |-> 64, range |-> 1024],
            [bo |-> BUFFER_BO, offset |-> 0, range |-> 256],
            [bo |-> BUFFER_BO, offset |-> 512, range |-> 128] >>

\* struct anv_descriptor_set.  The first, of the first set layout, after
\* anv_UpdateDescriptorSets wrote all four descriptors.  The second, of the
\* second set layout, with the second uniform buffer and the first sampler
\* never written: anv_AllocDescriptorSets zeroed them.
DescriptorSets ==
  << [descriptors |-> << [view |-> 1, sampler |-> NULL],
                         [view |-> 2, sampler |-> NULL],
                         [view |-> NULL, sampler |-> 1],
                         [view |-> 3, sampler |-> NULL] >>],
     [descriptors |-> << [view |-> 2, sampler |-> NULL],
                         [view |-> NULL, sampler |-> NULL],
                         [view |-> 3, sampler |-> NULL],
                         [view |-> NULL, sampler |-> NULL],
                         [view |-> NULL, sampler |-> 1] >>] >>

\* the pDynamicOffsets the application binds the set with
DynamicOffsets == {<<256>>}

\* the dynamic offsets the application rebinds the first set with: none,
\* the range of the view, one byte more, and a large one
RuntimeOffsets == {0, 1024, 1025, 2147483583}

\* struct anv_pipeline: a graphics pipeline with a vertex and a fragment
\* shader that reads vertex buffer 0, and a compute pipeline; batch is the
\* pipeline's precompiled batch (its size in dwords and its relocations).
\* Pipelines 3 and 4 are the same with the six-set layout, pipelines 5 and
\* 6 the same with the layout of the second set layout.
GraphicsPipeline(layout) ==
  [active_stages |-> {VK_SHADER_STAGE_VERTEX, VK_SHADER_STAGE_FRAGMENT},
   vb_used |-> {0}, layout |-> layout, total_scratch |-> 0,
   batch |-> [dw |-> 30,
              relocs |-> << Reloc(8, INSTRUCTION_BO, 0, 0) >>]]

ComputePipeline(layout) ==
  [active_stages |-> VK_SHADER_STAGE_COMPUTE_BIT,
   vb_used |-> {}, layout |-> layout, total_scratch |-> 0,
   batch |-> [dw |-> 10, relocs |-> <<>>]]

Pipelines ==
  << GraphicsPipeline(1), ComputePipeline(1),
     GraphicsPipeline(2), ComputePipeline(2),
     GraphicsPipeline(3), ComputePipeline(3) >>

GraphicsPipelines == {1, 3, 5}
ComputePipelines == {2, 4, 6}

\* struct anv_render_pass with three subpasses that each draw to color
\* attachment 0 and have no depth-stencil attachment, and a framebuffer
\* for it
Passes ==
  << [subpasses |->
        [i \in 1 .. 3 |->
           [color_count |-> 1, color_attachments |-> <<0>>,
            depth_stencil_attachment |-> "VK_ATTACHMENT_UNUSED"]]] >>

Framebuffers ==
  << [attachments |-> [a \in {0} |->
        [attachment_type |-> "ANV_ATTACHMENT_VIEW_TYPE_COLOR",
         bo |-> IMAGE_BO, offset |-> 0]]] >>

----------------------------------------------------------------------------
(* The command buffer (device.c 2485-2865)                                 *)

\* the chain that ends in batch bo b, oldest node first (the code walks it
\* newest first through prev_batch_bo)
RECURSIVE ChainOf(_, _)
ChainOf(bbo, b) ==
  IF b = NULL THEN <<>> ELSE Append(ChainOf(bbo, bbo[b].prev_batch_bo), b)

PrimaryChain(cb) == ChainOf(cb.bbo, cb.last_batch_bo)
SurfaceChain(cb) == ChainOf(cb.bbo, cb.surface_batch_bo)

NoExecbuf == [buffer_count |-> 0, batch_len |-> 0, flags |-> {}]

\* struct anv_state; bbo, ghost, is the surface-state block it lies in
NoState == [offset |-> 0, alloc_size |-> 0, map |-> FALSE, bbo |-> NULL]

\* cmd_buffer->descriptors and cmd_buffer->vertex_bindings with nothing bound
NoDescriptors ==
  [i \in 0 .. MAX_SETS - 1 |-> [set |-> NULL, dynamic_offsets |-> <<>>]]

NoVertexBindings == [vb \in {0, 1} |-> [buffer |-> NULL, offset |-> 0]]

\* no command buffer yet
NoCmdBuffer ==
  [batch_start |-> NULL, batch_next |-> 0, batch_end |-> 0,
   batch_relocs |-> <<>>, last_batch_bo |-> NULL,
   surface_batch_bo |-> NULL, surface_next |-> 0, surface_relocs |-> <<>>,
   bbo |-> [b \in BatchBos |-> NoBbo],
   dirty |-> {}, vb_dirty |-> {}, descriptors_dirty |-> {},
   compute_dirty |-> {},
   pipeline |-> NULL, compute_pipeline |-> NULL,
   vp_state |-> NULL, rs_state |-> NULL, cb_state |-> NULL, ds_state |-> NULL,
   descriptors |-> NoDescriptors, vertex_bindings |-> NoVertexBindings,
   state_vf |-> 0, framebuffer |-> NULL, pass |-> NULL, subpass |-> NULL,
   dynamic_next |-> 0, current_pipeline |-> "",
   exec2_bos |-> <<>>, exec2_objects |-> <<>>, bo_count |-> 0,
   need_reloc |-> FALSE, execbuf |-> NoExecbuf,
   p |-> 0, st |-> NoState, result |-> "", abort |-> "", bound |-> FALSE,
   alloc_fails |-> FALSE,
   g_log |-> <<>>, g_events |-> <<>>, g_states |-> <<>>, g_index |-> <<>>,
   g_freed |-> <<>>,
   g_calls |-> 0, g_max |-> 0]

\* what malloc'ed memory may hold where the code does not assign it
Junk == {0, 1}

\* anv_cmd_buffer_emit_state_base_address (scratch_size = 0: no scratch bo)
anv_cmd_buffer_emit_state_base_address(cb) ==
  anv_batch_emit(cb, Instr("STATE_BASE_ADDRESS",
                           << <<4, cb.surface_batch_bo, 0>>,
                              <<6, DYNAMIC_STATE_BO, 0>>,
                              <<10, INSTRUCTION_BO, 0>> >>, 0, NULL))

\* anv_CreateCommandBuffer; junk is what the malloc'ed struct held, and
\* the batch bos of c0 that are live are those the device's batch_bo_pool
\* has given to other command buffers
CreateCommandBufferIn(c0, junk) ==
  LET Primary(c) ==
        anv_batch_bo_start([c EXCEPT !.last_batch_bo = c.p,
                                     !.batch_relocs = <<>>],
                           c.p, GEN8_MI_BATCH_BUFFER_START_length * 4)
      Surface(c) ==
        [c EXCEPT !.surface_batch_bo = c.p,
                  !.bbo[c.p].first_reloc = 0,
                  !.surface_relocs = <<>>,
                  !.surface_next = 1,
                  !.exec2_objects = <<>>, !.exec2_bos = <<>>,
                  !.state_vf = 0, !.descriptors = NoDescriptors,
                  !.dirty = {}, !.vb_dirty = {},
                  !.descriptors_dirty = {},
                  !.pipeline = NULL,
                  !.vp_state = NULL, !.rs_state = NULL,
                  !.cb_state = NULL, !.ds_state = NULL]
  IN Surface(anv_batch_bo_create(Primary(anv_batch_bo_create(
       [c0 EXCEPT
          !.compute_dirty = IF junk = 0 THEN {} ELSE {"PIPELINE"},
          !.compute_pipeline = -junk,
          !.current_pipeline = IF junk = 0 THEN "" ELSE "junk",
          !.vertex_bindings =
              [vb \in {0, 1} |-> [buffer |-> -junk, offset |-> junk]],
          !.framebuffer = -junk, !.pass = -junk, !.subpass = -junk]))))

anv_CreateCommandBuffer(junk) == CreateCommandBufferIn(NoCmdBuffer, junk)

\* anv_BeginCommandBuffer
anv_BeginCommandBuffer(cb) ==
  [anv_cmd_buffer_emit_state_base_address(cb) EXCEPT
     !.current_pipeline = "UINT32_MAX"]

\* anv_cmd_buffer_add_bo that takes bo->index below bo_count as proof that
\* the bo is in the array
anv_cmd_buffer_add_bo_trusts_index(ex, bo, list, first, num_relocs) ==
  IF ex.index[bo] < Len(ex.bos)
  THEN ex
  ELSE [bos |-> Append(ex.bos, bo),
        objects |-> Append(ex.objects,
                           [handle |-> bo,
                            relocation_count |-> IF list = "" THEN 0 ELSE num_relocs,
                            relocs_list |-> list,
                            relocs_first |-> IF list = "" THEN 0 ELSE first,
                            offset |-> bo_offset[bo]]),
        index |-> [ex.index EXCEPT ![bo] = Len(ex.bos)]]

\* anv_cmd_buffer_add_bo on ex = [bos, objects, index]: the object array
\* being built and bo->index of every bo
anv_cmd_buffer_add_bo(ex, bo, list, first, num_relocs) ==
  IF ex.index[bo] < Len(ex.bos) /\ ex.bos[ex.index[bo] + 1] = bo
  THEN ex
  ELSE [bos |-> Append(ex.bos, bo),
        objects |-> Append(ex.objects,
                           [handle |-> bo,
                            relocation_count |-> IF list = "" THEN 0 ELSE num_relocs,
                            relocs_list |-> list,
                            relocs_first |-> IF list = "" THEN 0 ELSE first,
                            offset |-> bo_offset[bo]]),
        index |-> [ex.index EXCEPT ![bo] = Len(ex.bos)]]

RECURSIVE anv_cmd_buffer_add_validate_bos(_, _)
anv_cmd_buffer_add_validate_bos(ex, list) ==
  IF list = <<>> THEN ex
  ELSE anv_cmd_buffer_add_validate_bos(
         anv_cmd_buffer_add_bo(ex, list[1].bo, "", 0, 0), Tail(list))

\* the loops of anv_EndCommandBuffer that add the nodes of a chain, newest
\* first; nodes is the part of the chain still to add, oldest first
RECURSIVE AddChainBos(_, _, _, _)
AddChainBos(ex, bbo, nodes, list) ==
  IF nodes = <<>> THEN ex
  ELSE LET b == nodes[Len(nodes)]
       IN AddChainBos(anv_cmd_buffer_add_bo(ex, b, list, bbo[b].first_reloc,
                                            bbo[b].num_relocs),
                      bbo, SubSeq(nodes, 1, Len(nodes) - 1), list)

\* anv_cmd_buffer_process_relocs: does any target sit elsewhere than presumed
NeedReloc(list) ==
  \E i \in 1 .. Len(list) : bo_offset[list[i].bo] # list[i].presumed_offset

ProcessedRelocs(list, index) ==
  [i \in 1 .. Len(list) |-> [list[i] EXCEPT !.target_handle = index[list[i].bo]]]

\* a variant that does not compare the addresses of the auxiliary list
anv_cmd_buffer_process_relocs_batch_only(cb, which, index) ==
  IF which = "surface"
  THEN [cb EXCEPT !.surface_relocs = ProcessedRelocs(@, index)]
  ELSE [cb EXCEPT !.need_reloc = @ \/ NeedReloc(cb.batch_relocs),
                  !.batch_relocs = ProcessedRelocs(@, index)]

anv_cmd_buffer_process_relocs(cb, which, index) ==
  IF which = "surface"
  THEN [cb EXCEPT !.need_reloc = @ \/ NeedReloc(cb.surface_relocs),
                  !.surface_relocs = ProcessedRelocs(@, index)]
  ELSE [cb EXCEPT !.need_reloc = @ \/ NeedReloc(cb.batch_relocs),
                  !.batch_relocs = ProcessedRelocs(@, index)]

\* a variant of the object array that adds the primary chain before the
\* auxiliary chain
anv_EndCommandBuffer_bos_primary_first(cb, index) ==
  LET e0 == [bos |-> <<>>, objects |-> <<>>, index |-> index]
      e1 == AddChainBos(e0, cb.bbo, Tail(PrimaryChain(cb)), "batch")
      e2 == anv_cmd_buffer_add_validate_bos(e1, cb.batch_relocs)
      e3 == AddChainBos(e2, cb.bbo, SurfaceChain(cb), "surface")
      e4 == anv_cmd_buffer_add_validate_bos(e3, cb.surface_relocs)
      first == PrimaryChain(cb)[1]
  IN anv_cmd_buffer_add_bo(e4, first, "batch", cb.bbo[first].first_reloc,
                           cb.bbo[first].num_relocs)

\* the part of anv_EndCommandBuffer that builds the object array: the
\* auxiliary chain and the targets of its relocations, the primary chain
\* but for its first node and the targets of its relocations, the first
\* primary node
anv_EndCommandBuffer_bos(cb, index) ==
  LET e0 == [bos |-> <<>>, objects |-> <<>>, index |-> index]
      e1 == AddChainBos(e0, cb.bbo, SurfaceChain(cb), "surface")
      e2 == anv_cmd_buffer_add_validate_bos(e1, cb.surface_relocs)
      e3 == AddChainBos(e2, cb.bbo, Tail(PrimaryChain(cb)), "batch")
      e4 == anv_cmd_buffer_add_validate_bos(e3, cb.batch_relocs)
      first == PrimaryChain(cb)[1]
  IN anv_cmd_buffer_add_bo(e4, first, "batch", cb.bbo[first].first_reloc,
                           cb.bbo[first].num_relocs)

\* anv_EndCommandBuffer up to where it takes device->mutex: the end of the
\* batch, padded to a qword, and the lengths of the two current nodes
anv_EndCommandBuffer_finish(cb) ==
  LET Noop(c) ==
        IF (c.batch_next \div 4) % 2 = 1
        THEN anv_batch_emit(c, Instr("MI_NOOP", <<>>, 0, NULL)) ELSE c
      Finish(c) == anv_batch_bo_finish(c, c.last_batch_bo)
      FinishSurface(c, sb) ==
        [c EXCEPT !.bbo[sb].num_relocs =
                      Len(c.surface_relocs) - c.bbo[sb].first_reloc,
                  !.bbo[sb].length = c.surface_next,
                  !.bo_count = 0, !.need_reloc = FALSE]
      FinishCurrentSurface(c) == FinishSurface(c, c.surface_batch_bo)
  IN FinishCurrentSurface(Finish(Noop(
       anv_batch_emit(cb, Instr("MI_BATCH_BUFFER_END", <<>>, 0, NULL)))))

\* anv_EndCommandBuffer once the object array ex is built: the assertion
\* on the first batch bo, the two anv_cmd_buffer_process_relocs and the
\* execbuf; the result carries the new bo->index in g_index
anv_EndCommandBuffer_relocs(cb, ex) ==
  LET Objects(c, first) ==
        [c EXCEPT !.exec2_bos = ex.bos, !.exec2_objects = ex.objects,
                  !.bo_count = Len(ex.bos),
                  !.abort = IF c.bbo[first].first_reloc = 0
                               /\ ex.index[first] = Len(ex.bos) - 1
                            THEN @
                            ELSE "assert(batch_bo->bo.index == bo_count - 1)"]
      Request(c) ==
        [c EXCEPT !.execbuf =
           [buffer_count |-> c.bo_count,
            batch_len |-> c.batch_next,
            flags |-> {"I915_EXEC_HANDLE_LUT", "I915_EXEC_RENDER"}
                      \cup (IF ~c.need_reloc THEN {"I915_EXEC_NO_RELOC"}
                            ELSE {})]]
  IN [Request(anv_cmd_buffer_process_relocs(
                anv_cmd_buffer_process_relocs(
                  Objects(cb, PrimaryChain(cb)[1]), "surface", ex.index),
                "batch", ex.index))
        EXCEPT !.g_index = ex.index]

\* anv_EndCommandBuffer by a thread that no other thread interleaves with
anv_EndCommandBuffer(cb, index) ==
  LET Validate(c) ==
        anv_EndCommandBuffer_relocs(c, anv_EndCommandBuffer_bos(c, index))
  IN IF cb.bound THEN cb
     ELSE Validate(anv_EndCommandBuffer_finish(cb))

\* a variant of the loops below that deletes nothing
DestroyAllButFirst_keep_all(cb, b) ==
  [cb EXCEPT !.p = b]

\* the two loops of anv_ResetCommandBuffer that delete all but the first
\* batch bo of a chain
RECURSIVE DestroyAllButFirst(_, _)
DestroyAllButFirst(cb, b) ==
  IF cb.bbo[b].prev_batch_bo = NULL THEN [cb EXCEPT !.p = b]
  ELSE DestroyAllButFirst(anv_batch_bo_destroy(cb, b), cb.bbo[b].prev_batch_bo)

\* anv_ResetCommandBuffer
anv_ResetCommandBuffer(cb) ==
  LET Primary(c) ==
        anv_batch_bo_start([c EXCEPT !.last_batch_bo = c.p,
                                     !.batch_relocs = <<>>],
                           c.p, GEN8_MI_BATCH_BUFFER_START_length * 4)
      KeepFirstSurface(c) == DestroyAllButFirst(c, c.surface_batch_bo)
      Surface(c) ==
        [c EXCEPT !.surface_batch_bo = c.p,
                  !.surface_next = 1,
                  !.surface_relocs = <<>>,
                  !.rs_state = NULL, !.vp_state = NULL,
                  !.cb_state = NULL, !.ds_state = NULL,
                  \* not in the code: the object array and the execution
                  \* request of the last End are dead until the next End
                  \* rebuilds them (bo_count = 0 first); the model drops them
                  !.exec2_bos = <<>>, !.exec2_objects = <<>>, !.bo_count = 0,
                  !.need_reloc = FALSE, !.execbuf = NoExecbuf,
                  !.g_log = <<>>]
  IN Surface(KeepFirstSurface(Primary(
       DestroyAllButFirst(cb, cb.last_batch_bo))))

----------------------------------------------------------------------------
(* State allocation and the bind calls (device.c 2869-3076)                *)

\* anv_state_stream_alloc on cmd_buffer->dynamic_state_stream: a region of
\* the dynamic state pool that no other allocation of the stream overlaps
anv_state_stream_alloc(cb, size, alignment) ==
  LET offset == align_u32(cb.dynamic_next, alignment)
  IN [cb EXCEPT !.st = [offset |-> offset, alloc_size |-> size,
                        map |-> TRUE, bbo |-> NULL],
                !.dynamic_next = offset + size]

\* anv_state_pool_alloc on device->dynamic_state_pool, the same block pool
anv_state_pool_alloc(cb, size, alignment) ==
  anv_state_stream_alloc(cb, size, alignment)

\* the allocation that does not align the cursor
anv_cmd_buffer_alloc_surface_state_unaligned(cb, size, alignment) ==
  LET offset == cb.surface_next
  IN IF offset + size > BATCH_SIZE
     THEN [cb EXCEPT !.st = NoState]
     ELSE [cb EXCEPT !.st = [offset |-> offset, alloc_size |-> size,
                             map |-> TRUE, bbo |-> cb.surface_batch_bo],
                     !.surface_next = offset + size]

\* anv_cmd_buffer_alloc_surface_state: bump allocation in the current
\* surface-state block; a zeroed anv_state when it does not fit
anv_cmd_buffer_alloc_surface_state(cb, size, alignment) ==
  LET offset == align_u32(cb.surface_next, alignment)
  IN IF offset + size > BATCH_SIZE
     THEN [cb EXCEPT !.st = NoState]
     ELSE [cb EXCEPT !.st = [offset |-> offset, alloc_size |-> size,
                             map |-> TRUE, bbo |-> cb.surface_batch_bo],
                     !.surface_next = offset + size]

\* anv_cmd_buffer_new_surface_state_bo: finish the old block, chain a new
\* one and re-emit STATE_BASE_ADDRESS and a texture cache invalidation
anv_cmd_buffer_new_surface_state_bo(cb) ==
  LET Finish(c, old_bbo) ==
        [c EXCEPT !.bbo[old_bbo].num_relocs =
                      Len(c.surface_relocs) - c.bbo[old_bbo].first_reloc,
                  !.bbo[old_bbo].length = c.surface_next]
      Link(c, old_bbo, new_bbo) ==
        [c EXCEPT !.bbo[new_bbo].first_reloc = Len(c.surface_relocs),
                  !.surface_next = 1,
                  !.bbo[new_bbo].prev_batch_bo = old_bbo,
                  !.surface_batch_bo = new_bbo]
      Invalidate(c) ==
        [anv_batch_emit(c, Instr("PIPE_CONTROL", <<>>, 0, NULL))
           EXCEPT !.result = "VK_SUCCESS"]
      Fresh(c, old_bbo) ==
        IF c.bound THEN c
        ELSE Invalidate(anv_cmd_buffer_emit_state_base_address(
                          Link(c, old_bbo, c.p)))
  IN Fresh(anv_batch_bo_create(Finish(cb, cb.surface_batch_bo)),
           cb.surface_batch_bo)

\* anv_CmdBindPipeline
anv_CmdBindPipeline(cb, pipelineBindPoint, pipeline) ==
  CASE pipelineBindPoint = "VK_PIPELINE_BIND_POINT_COMPUTE" ->
         [cb EXCEPT !.compute_pipeline = pipeline,
                    !.compute_dirty = @ \cup {"PIPELINE"}]
    [] pipelineBindPoint = "VK_PIPELINE_BIND_POINT_GRAPHICS" ->
         [cb EXCEPT !.pipeline = pipeline,
                    !.vb_dirty = @ \cup Pipelines[pipeline].vb_used,
                    !.dirty = @ \cup {"PIPELINE"}]
    [] OTHER -> [cb EXCEPT !.abort = "assert(!\"invalid bind point\")"]

\* anv_CmdBindDynamicViewportState, ...RasterState, ...ColorBlendState,
\* ...DepthStencilState
anv_CmdBindDynamicViewportState(cb, vp_state) ==
  [cb EXCEPT !.vp_state = vp_state, !.dirty = @ \cup {"VP"}]

anv_CmdBindDynamicRasterState(cb, rs_state) ==
  [cb EXCEPT !.rs_state = rs_state, !.dirty = @ \cup {"RS"}]

anv_CmdBindDynamicColorBlendState(cb, cb_state) ==
  [cb EXCEPT !.cb_state = cb_state, !.dirty = @ \cup {"CB"}]

anv_CmdBindDynamicDepthStencilState(cb, ds_state) ==
  [cb EXCEPT !.ds_state = ds_state, !.dirty = @ \cup {"DS"}]

RECURSIVE BindSets(_, _, _, _, _, _)
\* the loop of anv_CmdBindDescriptorSets from set i on
BindSets(cb, layout, firstSet, pDescriptorSets, pDynamicOffsets, i) ==
  IF i >= Len(pDescriptorSets) THEN cb
  ELSE LET set_layout ==
             DescriptorSetLayouts[PipelineLayouts[layout].set[firstSet + i].layout]
           n == set_layout.num_dynamic_buffers
           c == [cb EXCEPT
                   !.descriptors[firstSet + i].set = pDescriptorSets[i + 1],
                   !.descriptors[firstSet + i].dynamic_offsets =
                       SubSeq(pDynamicOffsets, 1, n)
                       \o SubSeq(@, n + 1, Len(@)),
                   !.descriptors_dirty = @ \cup set_layout.shader_stages]
       IN BindSets(c, layout, firstSet, pDescriptorSets,
                   SubSeq(pDynamicOffsets, n + 1, Len(pDynamicOffsets)), i + 1)

\* anv_CmdBindDescriptorSets
anv_CmdBindDescriptorSets(cb, layout, firstSet, pDescriptorSets, pDynamicOffsets) ==
  LET c == BindSets(cb, layout, firstSet, pDescriptorSets, pDynamicOffsets, 0)
  IN IF firstSet + Len(pDescriptorSets) < MAX_SETS THEN c
     ELSE [cb EXCEPT !.abort = "assert(firstSet + setCount < MAX_SETS)"]

\* anv_CmdBindIndexBuffer: state_vf keeps the packed cut index (the
\* largest integer of the model checker stands for UINT32_MAX)
anv_CmdBindIndexBuffer(cb, buffer, offset, indexType) ==
  LET c == [cb EXCEPT !.state_vf = IF indexType = "VK_INDEX_TYPE_UINT16"
                                   THEN 65535 ELSE 2147483647,
                      !.dirty = @ \cup {"INDEX_BUFFER"}]
  IN anv_batch_emit(c, Instr("3DSTATE_INDEX_BUFFER",
                             << <<2, Buffers[buffer].bo,
                                  Buffers[buffer].offset + offset>> >>, 0, NULL))

RECURSIVE VertexBindingsFrom(_, _, _, _, _)
\* the loop of anv_CmdBindVertexBuffers from binding i on
VertexBindingsFrom(cb, startBinding, pBuffers, pOffsets, i) ==
  IF i >= Len(pBuffers) THEN cb
  ELSE VertexBindingsFrom(
         [cb EXCEPT !.vertex_bindings[startBinding + i] =
                        [buffer |-> pBuffers[i + 1], offset |-> pOffsets[i + 1]],
                    !.vb_dirty = @ \cup {startBinding + i}],
         startBinding, pBuffers, pOffsets, i + 1)

\* anv_CmdBindVertexBuffers
anv_CmdBindVertexBuffers(cb, startBinding, pBuffers, pOffsets) ==
  IF startBinding + Len(pBuffers) < MAX_VBS
  THEN VertexBindingsFrom(cb, startBinding, pBuffers, pOffsets, 0)
  ELSE [cb EXCEPT !.abort = "assert(startBinding + bindingCount < MAX_VBS)"]

----------------------------------------------------------------------------
(* Binding tables and the flush protocol (device.c 3078-3534)              *)

\* the layout cmd_buffer_emit_binding_table / _samplers read for a stage
StageLayout(cb, stage) ==
  IF stage = VK_SHADER_STAGE_COMPUTE
  THEN Pipelines[cb.compute_pipeline].layout
  ELSE Pipelines[cb.pipeline].layout

\* the color attachments of the current subpass, as surfaces to emit
AttachmentItems(cb, attachments) ==
  LET subpass == Passes[cb.pass].subpasses[cb.subpass]
      fb == Framebuffers[cb.framebuffer]
  IN [a \in 1 .. attachments |->
        LET view == fb.attachments[subpass.color_attachments[a]]
        IN [hole |-> FALSE, bo |-> view.bo, offset |-> view.offset,
            entry |-> a - 1, fill |-> FALSE, range |-> <<0, 0>>]]

RECURSIVE DescriptorItems(_, _, _, _, _)
\* the surface slots of the stage in the sets of the layout from set on, as
\* surfaces to emit: a slot whose descriptor has no view is a hole
DescriptorItems(cb, stage, layout, bias, set) ==
  IF set >= PipelineLayouts[layout].num_sets THEN <<>>
  ELSE LET Dynamic(view, dynamic_offset, entry) ==
             [hole |-> FALSE, bo |-> Views[view].bo,
              offset |-> Views[view].offset + dynamic_offset,
              entry |-> entry, fill |-> TRUE,
              range |-> uint32_sub(Views[view].range, dynamic_offset)]
           Item(view, slot, d, entry) ==
             IF view = NULL
             THEN [hole |-> TRUE, bo |-> NULL, offset |-> 0, entry |-> entry,
                   fill |-> FALSE, range |-> <<0, 0>>]
             ELSE IF slot.dynamic_slot >= 0
             THEN Dynamic(view, d.dynamic_offsets[slot.dynamic_slot + 1], entry)
             ELSE [hole |-> FALSE, bo |-> Views[view].bo,
                   offset |-> Views[view].offset, entry |-> entry,
                   fill |-> FALSE, range |-> <<0, 0>>]
           Items(d, set_stage, start) ==
             [b \in 1 .. set_stage.surface_count |->
                Item(DescriptorSets[d.set].descriptors[
                       set_stage.surface_start[b].index + 1].view,
                     set_stage.surface_start[b], d, start + b - 1)]
       IN Items(cb.descriptors[set],
                DescriptorSetLayouts[
                  PipelineLayouts[layout].set[set].layout].stage[stage],
                bias + PipelineLayouts[layout].set[set].surface_start[stage])
          \o DescriptorItems(cb, stage, layout, bias, set + 1)

\* ghost: the surface state written at c.st for item, or the sampler state
\* copied into a sampler table, as a record of g_states
StateRecord(kind, stage, entry, bbo, offset, item) ==
  [kind |-> kind, stage |-> stage, entry |-> entry, bbo |-> bbo,
   offset |-> offset, fill |-> item.fill, range |-> item.range,
   bo |-> item.bo, delta |-> item.offset]

RECURSIVE EmitSurfaceStates(_, _, _, _)
\* the two loops of cmd_buffer_emit_binding_table: a 64-byte surface state
\* per surface, with a relocation for its address at dword 8, and its
\* offset stored in the surface's entry of the table at bt_map; the entry
\* of a descriptor without a view is skipped
EmitSurfaceStates(cb, stage, items, bt_map) ==
  IF cb.bound THEN cb
  ELSE IF items = <<>> THEN [cb EXCEPT !.result = "VK_SUCCESS"]
  ELSE IF items[1].hole
  THEN EmitSurfaceStates(cb, stage, Tail(items), bt_map)
  ELSE LET Fill(c, item) ==
             IF ~c.st.map
             THEN [c EXCEPT !.result = "VK_ERROR_OUT_OF_DEVICE_MEMORY"]
             ELSE EmitSurfaceStates(
                    [c EXCEPT !.surface_relocs =
                        anv_reloc_list_add(@, c.st.offset + 8 * 4,
                                           item.bo, item.offset),
                              !.bbo[c.st.bbo].mem =
                        WriteWord(WriteSurfaceState(@, c.st.offset),
                                  bt_map \div 4 + item.entry, c.st.offset),
                              !.g_states =
                        Append(@, StateRecord("surface", stage, item.entry,
                                              c.st.bbo, c.st.offset, item))],
                    stage, Tail(items), bt_map)
       IN Fill(anv_cmd_buffer_alloc_surface_state(cb, 64, 64), items[1])

\* cmd_buffer_emit_binding_table; *bt_state is returned in st
cmd_buffer_emit_binding_table(cb, stage) ==
  LET Surfaces(c, layout, bias, attachments) ==
        AttachmentItems(c, attachments)
        \o (IF layout = NULL THEN <<>>
            ELSE DescriptorItems(c, stage, layout, bias, 0))
      Keep(c, bt_state) == [c EXCEPT !.st = bt_state]
      Table(c, layout, bias, attachments) ==
        IF ~c.st.map
        THEN [c EXCEPT !.result = "VK_ERROR_OUT_OF_DEVICE_MEMORY"]
        ELSE Keep(EmitSurfaceStates(c, stage,
                                    Surfaces(c, layout, bias, attachments),
                                    c.st.offset),
                  c.st)
      Sized(layout, bias, attachments, surface_count) ==
        IF attachments + surface_count = 0
        THEN [cb EXCEPT !.result = "VK_SUCCESS", !.st = NoState]
        ELSE Table(anv_cmd_buffer_alloc_surface_state(
                     cb, (bias + surface_count) * 4, 32),
                   layout, bias, attachments)
      Counted(layout) ==
        Sized(layout,
              IF stage = VK_SHADER_STAGE_FRAGMENT THEN MAX_RTS ELSE 0,
              IF stage = VK_SHADER_STAGE_FRAGMENT
              THEN Passes[cb.pass].subpasses[cb.subpass].color_count
              ELSE 0,
              IF layout # NULL
              THEN PipelineLayouts[layout].stage[stage].surface_count
              ELSE 0)
  IN Counted(StageLayout(cb, stage))

RECURSIVE SamplerItems(_, _, _, _)
\* the sampler slots of the stage in the sets of the layout from set on: a
\* slot whose descriptor has no sampler is a hole
SamplerItems(cb, stage, layout, set) ==
  IF set >= PipelineLayouts[layout].num_sets THEN <<>>
  ELSE LET Items(d, set_stage, start) ==
             [b \in 1 .. set_stage.sampler_count |->
                [hole |-> DescriptorSets[d.set].descriptors[
                            set_stage.sampler_start[b].index + 1].sampler = NULL,
                 bo |-> NULL, offset |-> 0, entry |-> start + b - 1,
                 fill |-> FALSE, range |-> <<0, 0>>]]
       IN Items(cb.descriptors[set],
                DescriptorSetLayouts[
                  PipelineLayouts[layout].set[set].layout].stage[stage],
                PipelineLayouts[layout].set[set].sampler_start[stage])
          \o SamplerItems(cb, stage, layout, set + 1)

RECURSIVE CopySamplers_copies_holes(_, _, _)
\* cmd_buffer_emit_samplers without its test for a slot with no sampler
CopySamplers_copies_holes(cb, stage, items) ==
  IF items = <<>> THEN cb
  ELSE CopySamplers_copies_holes(
         [cb EXCEPT !.g_states =
            Append(@, StateRecord("sampler", stage, items[1].entry, NULL,
                                  cb.st.offset + items[1].entry * 16,
                                  items[1]))],
         stage, Tail(items))

RECURSIVE CopySamplers(_, _, _)
\* the loops of cmd_buffer_emit_samplers: the sampler state of every slot
\* that has a sampler copied to its 16 bytes of the table at cb.st
CopySamplers(cb, stage, items) ==
  IF items = <<>> THEN cb
  ELSE IF items[1].hole THEN CopySamplers(cb, stage, Tail(items))
  ELSE CopySamplers(
         [cb EXCEPT !.g_states =
            Append(@, StateRecord("sampler", stage, items[1].entry, NULL,
                                  cb.st.offset + items[1].entry * 16,
                                  items[1]))],
         stage, Tail(items))

\* cmd_buffer_emit_samplers; *state is returned in st
cmd_buffer_emit_samplers(cb, stage) ==
  LET Table(c, layout) ==
        [CopySamplers(c, stage, SamplerItems(c, stage, layout, 0))
           EXCEPT !.result = "VK_SUCCESS"]
      Sized(layout, sampler_count) ==
        IF sampler_count = 0
        THEN [cb EXCEPT !.result = "VK_SUCCESS", !.st = NoState]
        ELSE Table(anv_state_stream_alloc(cb, sampler_count * 16, 32), layout)
      Counted(layout) ==
        Sized(layout,
              IF layout # NULL
              THEN PipelineLayouts[layout].stage[stage].sampler_count
              ELSE 0)
  IN Counted(StageLayout(cb, stage))

sampler_state_opcodes ==
  (VK_SHADER_STAGE_VERTEX :> 43) @@ (VK_SHADER_STAGE_TESS_CONTROL :> 44)
  @@ (VK_SHADER_STAGE_TESS_EVALUATION :> 45) @@ (VK_SHADER_STAGE_GEOMETRY :> 46)
  @@ (VK_SHADER_STAGE_FRAGMENT :> 47) @@ (VK_SHADER_STAGE_COMPUTE :> 0)

binding_table_opcodes ==
  (VK_SHADER_STAGE_VERTEX :> 38) @@ (VK_SHADER_STAGE_TESS_CONTROL :> 39)
  @@ (VK_SHADER_STAGE_TESS_EVALUATION :> 40) @@ (VK_SHADER_STAGE_GEOMETRY :> 41)
  @@ (VK_SHADER_STAGE_FRAGMENT :> 42) @@ (VK_SHADER_STAGE_COMPUTE :> 0)

\* flush_descriptor_set: the sampler and binding tables of one stage and
\* the instructions that point the stage at them
flush_descriptor_set(cb, stage) ==
  LET SamplerPointers(c, samplers) ==
        IF samplers.alloc_size > 0
        THEN anv_batch_emit(c, InstrSub("3DSTATE_SAMPLER_STATE_POINTERS",
                                        sampler_state_opcodes[stage],
                                        samplers.offset, NULL))
        ELSE c
      TablePointers(c, surfaces) ==
        IF surfaces.alloc_size > 0
        THEN anv_batch_emit(c, InstrSub("3DSTATE_BINDING_TABLE_POINTERS",
                                        binding_table_opcodes[stage],
                                        surfaces.offset, surfaces.bbo))
        ELSE c
      Done(c) == [c EXCEPT !.result = "VK_SUCCESS"]
      AfterTable(c, samplers) ==
        IF c.result # "VK_SUCCESS" THEN c
        ELSE Done(TablePointers(SamplerPointers(c, samplers), c.st))
      AfterSamplers(c) ==
        IF c.result # "VK_SUCCESS" THEN c
        ELSE AfterTable(cmd_buffer_emit_binding_table(c, stage), c.st)
  IN IF cb.bound THEN cb
     ELSE AfterSamplers(cmd_buffer_emit_samplers(cb, stage))

RECURSIVE FlushDirtyStages(_, _)
\* the first loop of flush_descriptor_sets: stop at the first failure
FlushDirtyStages(cb, stages) ==
  IF stages = <<>> THEN [cb EXCEPT !.result = "VK_SUCCESS"]
  ELSE LET Continue(c) ==
             IF c.result # "VK_SUCCESS" THEN c
             ELSE FlushDirtyStages(c, Tail(stages))
       IN Continue(flush_descriptor_set(cb, stages[1]))

\* a second loop that gives up at a failure without asserting
ReemitActiveStages_no_assert(cb, stages) ==
  FlushDirtyStages(cb, stages)

RECURSIVE ReemitActiveStages(_, _)
\* the second loop of flush_descriptor_sets: it had better succeed
ReemitActiveStages(cb, stages) ==
  IF stages = <<>> THEN cb
  ELSE LET Continue(c) ==
             IF c.result # "VK_SUCCESS"
             THEN [c EXCEPT !.abort = "assert(result == VK_SUCCESS)"]
             ELSE ReemitActiveStages(c, Tail(stages))
       IN Continue(flush_descriptor_set(cb, stages[1]))

\* flush_descriptor_sets without the re-emission after the new block
flush_descriptor_sets_no_reemit(cb) ==
  LET active_stages == Pipelines[cb.pipeline].active_stages
      Retry(c) ==
        IF c.result # "VK_SUCCESS"
        THEN anv_cmd_buffer_new_surface_state_bo(c)
        ELSE c
      Clear(c) == [c EXCEPT !.descriptors_dirty = @ \ active_stages]
  IN Clear(Retry(FlushDirtyStages(
                   cb, SetToSeq(cb.descriptors_dirty \cap active_stages))))

\* flush_descriptor_sets that forgets which stages it flushed
flush_descriptor_sets_clear_all(cb) ==
  LET active_stages == Pipelines[cb.pipeline].active_stages
      Retry(c) ==
        IF c.result # "VK_SUCCESS"
        THEN ReemitActiveStages(anv_cmd_buffer_new_surface_state_bo(c),
                                SetToSeq(active_stages))
        ELSE c
      Clear(c) == [c EXCEPT !.descriptors_dirty = {}]
  IN Clear(Retry(FlushDirtyStages(
                   cb, SetToSeq(cb.descriptors_dirty \cap active_stages))))

\* flush_descriptor_sets: flush the dirty stages of the bound pipeline; on
\* a failed allocation take a new surface-state block and re-emit all the
\* active stages
flush_descriptor_sets(cb) ==
  LET active_stages == Pipelines[cb.pipeline].active_stages
      Retry(c) ==
        IF c.result # "VK_SUCCESS"
        THEN ReemitActiveStages(anv_cmd_buffer_new_surface_state_bo(c),
                                SetToSeq(active_stages))
        ELSE c
      Clear(c) == [c EXCEPT !.descriptors_dirty = @ \ active_stages]
  IN Clear(Retry(FlushDirtyStages(
                   cb, SetToSeq(cb.descriptors_dirty \cap active_stages))))

\* ghost: a flush ran over the instructions from + 1 .. to of g_log
Flushed(before, after, kind) ==
  [after EXCEPT !.g_events = Append(@, [kind |-> kind,
                                        from |-> Len(before.g_log),
                                        to |-> Len(after.g_log)])]

\* the copy whose relocations are shifted by the cursor read before the
\* batch was extended
anv_batch_emit_batch_stale_offset(cb, other) ==
  LET size == other.dw * 4
      ins == InstrN("BATCH", other.dw, <<>>)
      Room(c) ==
        IF c.batch_next + size > c.batch_end
        THEN anv_cmd_buffer_chain_batch(c) ELSE c
      Copy(c, offset) ==
        [BatchWrite(c, ins, c.batch_next, FALSE)
           EXCEPT !.batch_relocs = anv_reloc_list_append(@, other.relocs, offset),
                  !.batch_next = @ + size,
                  !.g_log = Append(@, [bbo |-> c.batch_start,
                                       ins |-> Placed(ins, c.batch_next, FALSE)])]
  IN IF cb.bound THEN cb ELSE Copy(Room(cb), cb.batch_next)

\* anv_batch_emit_batch: copy a precompiled batch and its relocations
anv_batch_emit_batch(cb, other) ==
  LET size == other.dw * 4
      ins == InstrN("BATCH", other.dw, <<>>)
      Room(c) ==
        IF c.batch_next + size > c.batch_end
        THEN anv_cmd_buffer_chain_batch(c) ELSE c
      Fits(c) ==
        IF c.batch_next + size <= c.batch_end THEN c
        ELSE [c EXCEPT !.abort = "assert(batch->next + size <= batch->end)"]
      Copy(c, offset) ==
        [BatchWrite(c, ins, offset, FALSE)
           EXCEPT !.batch_relocs = anv_reloc_list_append(@, other.relocs, offset),
                  !.batch_next = @ + size,
                  !.g_log = Append(@, [bbo |-> c.batch_start,
                                       ins |-> Placed(ins, offset, FALSE)])]
      CopyAtNext(c) == Copy(c, c.batch_next)
  IN IF cb.bound THEN cb ELSE CopyAtNext(Fits(Room(cb)))

\* flush_compute_descriptor_set
flush_compute_descriptor_set(cb) ==
  LET Load(c, surfaces) ==
        anv_batch_emit(c, Instr("MEDIA_INTERFACE_DESCRIPTOR_LOAD", <<>>,
                                c.st.offset, surfaces.bbo))
      Done(c) == [c EXCEPT !.result = "VK_SUCCESS"]
      AfterTable(c) ==
        IF c.result # "VK_SUCCESS" THEN c
        ELSE Done(Load(anv_state_pool_alloc(c, 8 * 4, 64), c.st))
      AfterSamplers(c) ==
        IF c.result # "VK_SUCCESS" THEN c
        ELSE AfterTable(cmd_buffer_emit_binding_table(
                          c, VK_SHADER_STAGE_COMPUTE))
  IN IF cb.bound THEN cb
     ELSE AfterSamplers(cmd_buffer_emit_samplers(cb, VK_SHADER_STAGE_COMPUTE))

\* anv_cmd_buffer_flush_compute_state
anv_cmd_buffer_flush_compute_state(cb) ==
  LET pipeline == Pipelines[cb.compute_pipeline]
      Checked(c) ==
        IF pipeline.active_stages = VK_SHADER_STAGE_COMPUTE_BIT THEN c
        ELSE [c EXCEPT !.abort =
                "assert(pipeline->active_stages == VK_SHADER_STAGE_COMPUTE_BIT)"]
      Select(c) ==
        IF c.current_pipeline # "GPGPU"
        THEN [anv_batch_emit(c, Instr("PIPELINE_SELECT", <<>>, 0, NULL))
                EXCEPT !.current_pipeline = "GPGPU"]
        ELSE c
      PipelineBatch(c) ==
        IF "PIPELINE" \in c.compute_dirty
        THEN anv_batch_emit_batch(c, pipeline.batch) ELSE c
      Succeeded(c) ==
        IF c.result = "VK_SUCCESS" THEN c
        ELSE [c EXCEPT !.abort = "assert(result == VK_SUCCESS)"]
      Retry(c) ==
        IF c.result = "VK_SUCCESS" THEN c
        ELSE Succeeded(flush_compute_descriptor_set(
                         anv_cmd_buffer_new_surface_state_bo(c)))
      \* descriptors_dirty &= ~VK_SHADER_STAGE_COMPUTE: the mask is the
      \* stage number, not VK_SHADER_STAGE_COMPUTE_BIT
      Clear(c) ==
        [c EXCEPT !.descriptors_dirty = @ \ Bits(VK_SHADER_STAGE_COMPUTE)]
      Descriptors(c) ==
        IF (c.descriptors_dirty \cap VK_SHADER_STAGE_COMPUTE_BIT # {})
           \/ "PIPELINE" \in c.compute_dirty
        THEN Clear(Retry(flush_compute_descriptor_set(c)))
        ELSE c
      Clean(c) == [c EXCEPT !.compute_dirty = {}]
  IN Flushed(cb, Clean(Descriptors(PipelineBatch(Select(Checked(cb))))),
             "compute")

\* the 3DSTATE_VERTEX_BUFFERS of the slots vb_emit: a VERTEX_BUFFER_STATE
\* of four dwords per slot, its address in the second
VertexBuffers(cb, vb_emit) ==
  LET slots == SetToSeq(vb_emit)
  IN InstrN("3DSTATE_VERTEX_BUFFERS", 1 + Len(slots) * 4,
            [i \in 1 .. Len(slots) |->
               LET b == cb.vertex_bindings[slots[i]]
               IN <<1 + (i - 1) * 4 + 1, Buffers[b.buffer].bo,
                    Buffers[b.buffer].offset + b.offset>>])

\* a flush that leaves the dirty mask as it found it
flush_state_clear_dirty_keeps_dirty(cb, vb_emit) ==
  [cb EXCEPT !.vb_dirty = @ \ vb_emit]

\* a flush that clears the dirty bit of every vertex-buffer slot
flush_state_clear_dirty_all_slots(cb, vb_emit) ==
  [cb EXCEPT !.vb_dirty = {}, !.dirty = {}]

\* the end of anv_cmd_buffer_flush_state: vb_dirty &= ~vb_emit; dirty = 0
flush_state_clear_dirty(cb, vb_emit) ==
  [cb EXCEPT !.vb_dirty = @ \ vb_emit, !.dirty = {}]

\* anv_cmd_buffer_flush_state
anv_cmd_buffer_flush_state(cb) ==
  LET pipeline == Pipelines[cb.pipeline]
      vb_emit == cb.vb_dirty \cap pipeline.vb_used
      Checked(c) ==
        IF pipeline.active_stages \cap VK_SHADER_STAGE_COMPUTE_BIT = {} THEN c
        ELSE [c EXCEPT !.abort =
                "assert((pipeline->active_stages & VK_SHADER_STAGE_COMPUTE_BIT) == 0)"]
      Select(c) ==
        IF c.current_pipeline # "_3D"
        THEN [anv_batch_emit(c, Instr("PIPELINE_SELECT", <<>>, 0, NULL))
                EXCEPT !.current_pipeline = "_3D"]
        ELSE c
      Vertices(c) ==
        IF vb_emit # {} THEN anv_batch_emit(c, VertexBuffers(c, vb_emit))
        ELSE c
      Scratch(c) ==
        IF 0 < pipeline.total_scratch
        THEN anv_cmd_buffer_emit_state_base_address(c) ELSE c
      PipelineBatch(c) ==
        IF "PIPELINE" \in c.dirty
        THEN anv_batch_emit_batch(Scratch(c), pipeline.batch)
        ELSE c
      Descriptors(c) ==
        IF c.descriptors_dirty # {} THEN flush_descriptor_sets(c) ELSE c
      Viewport(c) ==
        IF "VP" \in c.dirty
        THEN anv_batch_emit(
               anv_batch_emit(
                 anv_batch_emit(c,
                   Instr("3DSTATE_SCISSOR_STATE_POINTERS", <<>>, 0, NULL)),
                 Instr("3DSTATE_VIEWPORT_STATE_POINTERS_CC", <<>>, 0, NULL)),
               Instr("3DSTATE_VIEWPORT_STATE_POINTERS_SF_CLIP", <<>>, 0, NULL))
        ELSE c
      Raster(c) ==
        IF c.dirty \cap {"PIPELINE", "RS"} # {}
        THEN anv_batch_emit(
               anv_batch_emit(c, Instr("3DSTATE_SF", <<>>, 0, NULL)),
               Instr("3DSTATE_RASTER", <<>>, 0, NULL))
        ELSE c
      DepthStencil(c) ==
        IF c.ds_state # NULL /\ c.dirty \cap {"PIPELINE", "DS"} # {}
        THEN anv_batch_emit(c, Instr("3DSTATE_WM_DEPTH_STENCIL", <<>>, 0, NULL))
        ELSE c
      ColorCalcPointers(c) ==
        anv_batch_emit(c, Instr("3DSTATE_CC_STATE_POINTERS", <<>>,
                                c.st.offset, NULL))
      ColorCalc(c) ==
        IF c.dirty \cap {"CB", "DS"} # {}
        THEN ColorCalcPointers(anv_state_stream_alloc(c, 6 * 4, 64))
        ELSE c
      VertexFetch(c) ==
        IF c.dirty \cap {"PIPELINE", "INDEX_BUFFER"} # {}
        THEN anv_batch_emit(c, Instr("3DSTATE_VF", <<>>, c.state_vf, NULL))
        ELSE c
      Clean(c) == flush_state_clear_dirty(c, vb_emit)
  IN Flushed(cb,
             Clean(VertexFetch(ColorCalc(DepthStencil(Raster(Viewport(
               Descriptors(PipelineBatch(Vertices(Select(Checked(cb))))))))))),
             "graphics")

\* anv_batch_lrm, anv_batch_lri
anv_batch_lrm(cb, reg, bo, offset) ==
  anv_batch_emit(cb, Instr("MI_LOAD_REGISTER_MEM", << <<2, bo, offset>> >>, reg, NULL))

anv_batch_lri(cb, reg, imm) ==
  anv_batch_emit(cb, Instr("MI_LOAD_REGISTER_IMM", <<>>, reg, NULL))

\* anv_CmdDraw that emits its 3DPRIMITIVE before it flushes
anv_CmdDraw_before_flush(cb) ==
  anv_cmd_buffer_flush_state(
    anv_batch_emit(cb, Instr("3DPRIMITIVE", <<>>, 0, NULL)))

\* anv_CmdDraw, anv_CmdDrawIndexed
anv_CmdDraw(cb) ==
  anv_batch_emit(anv_cmd_buffer_flush_state(cb),
                 Instr("3DPRIMITIVE", <<>>, 0, NULL))

anv_CmdDrawIndexed(cb) ==
  anv_batch_emit(anv_cmd_buffer_flush_state(cb),
                 Instr("3DPRIMITIVE", <<>>, 1, NULL))

RECURSIVE LoadRegisters(_, _, _, _)
\* the anv_batch_lrm calls of an indirect draw or dispatch: one register
\* per dword of the parameter buffer
LoadRegisters(cb, regs, bo, bo_offset_) ==
  IF regs = <<>> THEN cb
  ELSE LoadRegisters(anv_batch_lrm(cb, regs[1], bo, bo_offset_),
                     Tail(regs), bo, bo_offset_ + 4)

\* anv_CmdDrawIndirect
anv_CmdDrawIndirect(cb, buffer, offset) ==
  anv_batch_emit(
    anv_batch_lri(
      LoadRegisters(anv_cmd_buffer_flush_state(cb),
                    <<"GEN7_3DPRIM_VERTEX_COUNT",
                      "GEN7_3DPRIM_INSTANCE_COUNT",
                      "GEN7_3DPRIM_START_VERTEX",
                      "GEN7_3DPRIM_START_INSTANCE">>,
                    Buffers[buffer].bo, Buffers[buffer].offset + offset),
      "GEN7_3DPRIM_BASE_VERTEX", 0),
    Instr("3DPRIMITIVE", <<>>, 0, NULL))

\* anv_CmdDrawIndexedIndirect
anv_CmdDrawIndexedIndirect(cb, buffer, offset) ==
  anv_batch_emit(
    LoadRegisters(anv_cmd_buffer_flush_state(cb),
                  <<"GEN7_3DPRIM_VERTEX_COUNT",
                    "GEN7_3DPRIM_INSTANCE_COUNT",
                    "GEN7_3DPRIM_START_VERTEX",
                    "GEN7_3DPRIM_BASE_VERTEX",
                    "GEN7_3DPRIM_START_INSTANCE">>,
                  Buffers[buffer].bo, Buffers[buffer].offset + offset),
    Instr("3DPRIMITIVE", <<>>, 1, NULL))

\* anv_CmdDispatch
anv_CmdDispatch(cb) ==
  anv_batch_emit(
    anv_batch_emit(anv_cmd_buffer_flush_compute_state(cb),
                   Instr("GPGPU_WALKER", <<>>, 0, NULL)),
    Instr("MEDIA_STATE_FLUSH", <<>>, 0, NULL))

\* anv_CmdDispatchIndirect
anv_CmdDispatchIndirect(cb, buffer, offset) ==
  anv_batch_emit(
    anv_batch_emit(
      LoadRegisters(anv_cmd_buffer_flush_compute_state(cb),
                    <<"GPGPU_DISPATCHDIMX", "GPGPU_DISPATCHDIMY",
                      "GPGPU_DISPATCHDIMZ">>,
                    Buffers[buffer].bo, Buffers[buffer].offset + offset),
      Instr("GPGPU_WALKER", <<>>, 1, NULL)),
    Instr("MEDIA_STATE_FLUSH", <<>>, 0, NULL))

\* anv_cmd_buffer_emit_depth_stencil with the null view of a subpass
\* without depth-stencil attachment: no address names a bo
anv_cmd_buffer_emit_depth_stencil(cb) ==
  anv_batch_emit(
    anv_batch_emit(
      anv_batch_emit(
        anv_batch_emit(cb, Instr("3DSTATE_DEPTH_BUFFER", <<>>, 0, NULL)),
        Instr("3DSTATE_HIER_DEPTH_BUFFER", <<>>, 0, NULL)),
      Instr("3DSTATE_STENCIL_BUFFER", <<>>, 0, NULL)),
    Instr("3DSTATE_CLEAR_PARAMS", <<>>, 0, NULL))

\* anv_cmd_buffer_begin_subpass
anv_cmd_buffer_begin_subpass(cb, subpass) ==
  anv_cmd_buffer_emit_depth_stencil(
    [cb EXCEPT !.subpass = subpass,
               !.descriptors_dirty = @ \cup VK_SHADER_STAGE_FRAGMENT_BIT])

\* anv_CmdBeginRenderPass; the pass clears no attachment, so
\* anv_cmd_buffer_clear_attachments has nothing to draw
anv_CmdBeginRenderPass(cb, pass, framebuffer) ==
  anv_cmd_buffer_begin_subpass(
    anv_batch_emit([cb EXCEPT !.framebuffer = framebuffer, !.pass = pass],
                   Instr("3DSTATE_DRAWING_RECTANGLE", <<>>, 0, NULL)),
    1)

\* anv_CmdNextSubpass: cmd_buffer->subpass++, then
\* anv_cmd_buffer_begin_subpass(cmd_buffer, cmd_buffer->subpass + 1)
anv_CmdNextSubpass(cb) ==
  LET Advanced(c) == anv_cmd_buffer_begin_subpass(c, c.subpass + 1)
  IN Advanced([cb EXCEPT !.subpass = @ + 1])

----------------------------------------------------------------------------
(* Actions: one per API call                                               *)

\* ghost: what the call saw before it ran
Pre(cb) ==
  [dirty |-> cb.dirty, vb_dirty |-> cb.vb_dirty,
   descriptors_dirty |-> cb.descriptors_dirty,
   compute_dirty |-> cb.compute_dirty,
   log |-> Len(cb.g_log),
   surface_batch_bo |-> cb.surface_batch_bo,
   surface_nodes |-> SurfaceChain(cb),
   primary_nodes |-> PrimaryChain(cb),
   surface_next |-> cb.surface_next,
   dynamic_next |-> cb.dynamic_next,
   relocs |-> Len(cb.batch_relocs) + Len(cb.surface_relocs),
   surface_relocs |-> Len(cb.surface_relocs),
   batch_start |-> cb.batch_start, batch_next |-> cb.batch_next,
   batch_end |-> cb.batch_end,
   pipeline |-> cb.pipeline, compute_pipeline |-> cb.compute_pipeline]

\* the state after a call that returned r: an assertion that failed ends
\* the run; a call that needs more than the model's bounds is not taken.
\* cost is 1 for a call the application chooses freely and 0 for a call
\* of the fixed opening of a recording; g_max bounds the sum of the costs.
Returns(r, op, arg, next_pc, cost) ==
  /\ cmd_buffer.g_calls + cost <= cmd_buffer.g_max
  /\ ~r.bound
  /\ cmd_buffer' = [r EXCEPT !.p = 0, !.st = NoState, !.result = "",
                              !.alloc_fails = FALSE,
                              !.g_index = <<>>, !.g_calls = @ + cost]
  /\ pc' = IF r.abort # "" THEN "Aborted" ELSE next_pc
  /\ call' = [op |-> op, arg |-> arg, pre |-> Pre(cmd_buffer),
              prev |-> call.op]
  /\ UNCHANGED <<mutex, thread, PipelineLayouts, lists, vector>>

\* ghost events and ghost state records of one call start empty
Enter(cb) ==
  [cb EXCEPT !.g_events = <<>>, !.g_states = <<>>, !.g_freed = <<>>]

\* the call changes the command buffer: an application does not repeat a
\* bind that changes nothing
Changes(r) == r # Enter(cmd_buffer)

\* The application opens every recording the same way: begin, begin render
\* pass, the four dynamic states, the vertex buffers, the index buffer, the
\* descriptor set, the graphics and the compute pipeline (what is still
\* bound from an earlier recording is not bound again).  None of these
\* binds but the index buffer's emits, so their order does not show in the
\* command buffer.  Once all is bound the recording is Ready and the
\* application draws, dispatches and rebinds as it likes.
VertexBuffersBound(cb) ==
  \A vb \in DOMAIN cb.vertex_bindings :
     cb.vertex_bindings[vb].buffer \in DOMAIN Buffers

IndexBufferBound(cb) ==
  \E i \in 1 .. Len(cb.g_log) : cb.g_log[i].ins.op = "3DSTATE_INDEX_BUFFER"

DynamicStateBound(cb) ==
  /\ cb.vp_state # NULL /\ cb.rs_state # NULL
  /\ cb.cb_state # NULL /\ cb.ds_state # NULL

\* every kind of state has been bound
Bound ==
  /\ pc = "InPass"
  /\ DynamicStateBound(cmd_buffer)
  /\ VertexBuffersBound(cmd_buffer)
  /\ IndexBufferBound(cmd_buffer)
  /\ cmd_buffer.descriptors[0].set # NULL
  /\ cmd_buffer.pipeline \in GraphicsPipelines
  /\ cmd_buffer.compute_pipeline \in ComputePipelines

\* the set layout each descriptor set was allocated with
SetLayoutOf == <<1, 2>>

\* the sets bound at the set numbers of the pipeline's layout were
\* allocated with the set layouts of that layout
SetsMatch(cb, pipeline) ==
  \A i \in 0 .. PipelineLayouts[Pipelines[pipeline].layout].num_sets - 1 :
     /\ cb.descriptors[i].set # NULL
     /\ SetLayoutOf[cb.descriptors[i].set] =
          PipelineLayouts[Pipelines[pipeline].layout].set[i].layout

\* the application draws and dispatches with sets that match its pipelines
Ready ==
  /\ Bound
  /\ SetsMatch(cmd_buffer, cmd_buffer.pipeline)
  /\ SetsMatch(cmd_buffer, cmd_buffer.compute_pipeline)

Create ==
  /\ pc = "Initial"
  /\ \E junk \in Junk :
       Returns([anv_CreateCommandBuffer(junk) EXCEPT
                  !.g_calls = 0, !.g_max = cmd_buffer.g_max],
               "Create", junk, "Created", 0)
  /\ UNCHANGED <<bo_offset, bo_index>>

Begin ==
  /\ pc = "Created"
  /\ Returns(anv_BeginCommandBuffer(Enter(cmd_buffer)), "Begin", 0,
             "Recording", 0)
  /\ UNCHANGED <<bo_offset, bo_index>>

\* one anv_batch_emit / anv_batch_emitn of num_dwords dwords by any caller;
\* with an address field (a relocation to the image's bo) or without
BatchEmit ==
  /\ pc = "Recording"
  /\ \E k \in EmitKinds :
       Returns(anv_batch_emit(Enter(cmd_buffer),
                 InstrN("EMIT", k[1],
                        IF k[2] = NULL THEN <<>> ELSE << <<1, k[2], 0>> >>)),
               "BatchEmit", k[1], "Recording", 1)
  /\ UNCHANGED <<bo_offset, bo_index>>

BeginRenderPass ==
  /\ pc = "Recording"
  /\ Returns(anv_CmdBeginRenderPass(Enter(cmd_buffer), 1, 1),
             "BeginRenderPass", 0, "InPass", 0)
  /\ UNCHANGED <<bo_offset, bo_index>>

BindDynamicViewportState ==
  /\ pc = "InPass" /\ cmd_buffer.vp_state = NULL
  /\ Returns(anv_CmdBindDynamicViewportState(Enter(cmd_buffer), 1),
             "BindDynamicViewportState", 1, pc, 0)
  /\ UNCHANGED <<bo_offset, bo_index>>

BindDynamicRasterState ==
  /\ pc = "InPass" /\ cmd_buffer.vp_state # NULL /\ cmd_buffer.rs_state = NULL
  /\ Returns(anv_CmdBindDynamicRasterState(Enter(cmd_buffer), 1),
             "BindDynamicRasterState", 1, pc, 0)
  /\ UNCHANGED <<bo_offset, bo_index>>

BindDynamicColorBlendState ==
  /\ pc = "InPass" /\ cmd_buffer.rs_state # NULL /\ cmd_buffer.cb_state = NULL
  /\ Returns(anv_CmdBindDynamicColorBlendState(Enter(cmd_buffer), 1),
             "BindDynamicColorBlendState", 1, pc, 0)
  /\ UNCHANGED <<bo_offset, bo_index>>

BindDynamicDepthStencilState ==
  /\ pc = "InPass" /\ cmd_buffer.cb_state # NULL /\ cmd_buffer.ds_state = NULL
  /\ Returns(anv_CmdBindDynamicDepthStencilState(Enter(cmd_buffer), 1),
             "BindDynamicDepthStencilState", 1, pc, 0)
  /\ UNCHANGED <<bo_offset, bo_index>>

BindVertexBuffers ==
  /\ pc = "InPass" /\ DynamicStateBound(cmd_buffer)
  /\ ~VertexBuffersBound(cmd_buffer)
  /\ Returns(anv_CmdBindVertexBuffers(Enter(cmd_buffer), 0, <<1, 1>>, <<0, 256>>),
             "BindVertexBuffers", 0, pc, 0)
  /\ UNCHANGED <<bo_offset, bo_index>>

BindIndexBuffer ==
  /\ pc = "InPass" /\ DynamicStateBound(cmd_buffer)
  /\ VertexBuffersBound(cmd_buffer)
  /\ ~IndexBufferBound(cmd_buffer)
  /\ Returns(anv_CmdBindIndexBuffer(Enter(cmd_buffer), 1, 0, "VK_INDEX_TYPE_UINT16"),
             "BindIndexBuffer", 1, pc, 0)
  /\ UNCHANGED <<bo_offset, bo_index>>

BindDescriptorSets ==
  /\ pc = "InPass" /\ IndexBufferBound(cmd_buffer)
  /\ \E pDynamicOffsets \in DynamicOffsets :
       LET r == anv_CmdBindDescriptorSets(Enter(cmd_buffer), 1, 0, <<1>>,
                                          pDynamicOffsets)
       IN /\ cmd_buffer.descriptors[0].set = NULL \/ (Ready /\ Changes(r))
          /\ Returns(r, "BindDescriptorSets", pDynamicOffsets, pc,
                     IF Ready THEN 1 ELSE 0)
  /\ UNCHANGED <<bo_offset, bo_index>>

BindPipeline ==
  /\ pc = "InPass" /\ cmd_buffer.descriptors[0].set # NULL
  /\ \/ LET r == anv_CmdBindPipeline(Enter(cmd_buffer),
                                     "VK_PIPELINE_BIND_POINT_GRAPHICS", 1)
        IN /\ cmd_buffer.pipeline = NULL \/ (Ready /\ Changes(r))
           /\ Returns(r, "BindPipeline", 1, pc, IF Ready THEN 1 ELSE 0)
     \/ LET r == anv_CmdBindPipeline(Enter(cmd_buffer),
                                     "VK_PIPELINE_BIND_POINT_COMPUTE", 2)
        IN /\ cmd_buffer.pipeline # NULL
           /\ cmd_buffer.compute_pipeline \notin ComputePipelines
              \/ (Ready /\ Changes(r))
           /\ Returns(r, "BindPipeline", 2, pc, IF Ready THEN 1 ELSE 0)
  /\ UNCHANGED <<bo_offset, bo_index>>

\* six sets of the first set layout bound at once for the six-set layout
BindManyDescriptorSets ==
  /\ Bound
  /\ LET r == anv_CmdBindDescriptorSets(Enter(cmd_buffer), 2, 0,
                                        <<1, 1, 1, 1, 1, 1>>,
                                        <<256, 256, 256, 256, 256, 256>>)
     IN /\ Changes(r)
        /\ Returns(r, "BindDescriptorSets", 2, pc, 1)
  /\ UNCHANGED <<bo_offset, bo_index>>

\* the set with unwritten descriptors bound for the third layout
BindSparseDescriptorSet ==
  /\ Bound
  /\ LET r == anv_CmdBindDescriptorSets(Enter(cmd_buffer), 3, 0, <<2>>, <<>>)
     IN /\ Changes(r)
        /\ Returns(r, "BindDescriptorSets", 3, pc, 1)
  /\ UNCHANGED <<bo_offset, bo_index>>

\* the first set bound again with another dynamic offset
BindRuntimeOffset ==
  /\ Bound
  /\ \E d \in RuntimeOffsets :
       LET r == anv_CmdBindDescriptorSets(Enter(cmd_buffer), 1, 0, <<1>>, <<d>>)
       IN /\ Changes(r)
          /\ Returns(r, "BindDescriptorSets", <<d>>, pc, 1)
  /\ UNCHANGED <<bo_offset, bo_index>>

\* a pipeline of the six-set or of the third layout bound once its sets are
BindLayoutPipeline ==
  /\ Bound
  /\ \E pipeline \in {3, 4, 5, 6} :
       LET r == anv_CmdBindPipeline(
                  Enter(cmd_buffer),
                  IF pipeline \in GraphicsPipelines
                  THEN "VK_PIPELINE_BIND_POINT_GRAPHICS"
                  ELSE "VK_PIPELINE_BIND_POINT_COMPUTE",
                  pipeline)
       IN /\ SetsMatch(cmd_buffer, pipeline)
          /\ Changes(r)
          /\ Returns(r, "BindPipeline", pipeline, pc, 1)
  /\ UNCHANGED <<bo_offset, bo_index>>

Draw ==
  /\ Ready
  /\ Returns(anv_CmdDraw(Enter(cmd_buffer)), "Draw", 0, pc, 1)
  /\ UNCHANGED <<bo_offset, bo_index>>

DrawIndexed ==
  /\ Ready
  /\ Returns(anv_CmdDrawIndexed(Enter(cmd_buffer)), "DrawIndexed", 0, pc, 1)
  /\ UNCHANGED <<bo_offset, bo_index>>

DrawIndirect ==
  /\ Ready
  /\ Returns(anv_CmdDrawIndirect(Enter(cmd_buffer), 1, 0),
             "DrawIndirect", 0, pc, 1)
  /\ UNCHANGED <<bo_offset, bo_index>>

DrawIndexedIndirect ==
  /\ Ready
  /\ Returns(anv_CmdDrawIndexedIndirect(Enter(cmd_buffer), 1, 0),
             "DrawIndexedIndirect", 0, pc, 1)
  /\ UNCHANGED <<bo_offset, bo_index>>

Dispatch ==
  /\ Ready
  /\ Returns(anv_CmdDispatch(Enter(cmd_buffer)), "Dispatch", 0, pc, 1)
  /\ UNCHANGED <<bo_offset, bo_index>>

DispatchIndirect ==
  /\ Ready
  /\ Returns(anv_CmdDispatchIndirect(Enter(cmd_buffer), 1, 0),
             "DispatchIndirect", 0, pc, 1)
  /\ UNCHANGED <<bo_offset, bo_index>>

End ==
  /\ pc = "Recording" \/ Ready
  /\ LET r == anv_EndCommandBuffer(Enter(cmd_buffer), bo_index)
     IN /\ Returns(r, "End", 0, "Executable", 1)
        /\ bo_index' = r.g_index
  /\ UNCHANGED bo_offset

Reset ==
  /\ pc \in {"Recording", "Executable"} \/ Ready
  /\ Returns(anv_ResetCommandBuffer(Enter(cmd_buffer)), "Reset", 0, "Created", 1)
  /\ UNCHANGED <<bo_offset, bo_index>>

\* anv_QueueSubmit of another command buffer of the device (or of this
\* one): the kernel may place a bo elsewhere, and bo->offset follows
\* (device.c 948-949)
QueueSubmitMoves ==
  /\ pc \in {"Recording", "Executable"} \/ Ready
  /\ cmd_buffer.g_calls < cmd_buffer.g_max
  /\ \E b \in MovableBos, a \in Addresses :
       /\ bo_offset[b] # a
       /\ bo_offset' = [bo_offset EXCEPT ![b] = a]
  /\ cmd_buffer' = [cmd_buffer EXCEPT !.g_calls = @ + 1]
  /\ call' = [op |-> "QueueSubmit", arg |-> 0, pre |-> Pre(cmd_buffer),
              prev |-> call.op]
  /\ UNCHANGED <<pc, bo_index, mutex, thread, PipelineLayouts, lists, vector>>

\* before the command buffer is created; max_calls bounds the run
InitWith(max_calls) ==
  /\ pc = "Initial"
  /\ cmd_buffer = [NoCmdBuffer EXCEPT !.g_max = max_calls]
  /\ bo_offset = [b \in Bos |-> 0]
  /\ bo_index = [b \in Bos |-> 0]
  /\ call = [op |-> "", arg |-> 0, pre |-> Pre(NoCmdBuffer), prev |-> ""]
  /\ mutex = NULL
  /\ thread = <<>>
  /\ PipelineLayouts = CreatedPipelineLayouts
  /\ vector = NoVector
  /\ lists = <<>>

Init == InitWith(MaxCalls)

InitBatch == InitWith(MaxBatchCalls)

InitDraw == InitWith(MaxDrawCalls)

InitSets == InitWith(MaxSetCalls)

\* SpecBatch: any sequence of emits on the command buffer's batch
NextBatch == Create \/ Begin \/ BatchEmit \/ End \/ Reset \/ QueueSubmitMoves

SpecBatch == InitBatch /\ [][NextBatch]_vars

\* Spec: recordings with draws and dispatches
Next ==
  \/ Create \/ Begin \/ BeginRenderPass
  \/ BindDynamicViewportState \/ BindDynamicRasterState
  \/ BindDynamicColorBlendState \/ BindDynamicDepthStencilState
  \/ BindVertexBuffers \/ BindIndexBuffer
  \/ BindDescriptorSets \/ BindPipeline
  \/ Draw \/ Dispatch
  \/ End \/ Reset \/ QueueSubmitMoves

Spec == Init /\ [][Next]_vars

\* SpecDraw: recordings with all the kinds of draw and dispatch
NextDraw ==
  \/ Create \/ Begin \/ BeginRenderPass
  \/ BindDynamicViewportState \/ BindDynamicRasterState
  \/ BindDynamicColorBlendState \/ BindDynamicDepthStencilState
  \/ BindVertexBuffers \/ BindIndexBuffer
  \/ BindDescriptorSets \/ BindPipeline
  \/ Draw \/ DrawIndexed \/ DrawIndirect \/ DrawIndexedIndirect
  \/ Dispatch \/ DispatchIndirect

SpecDraw == InitDraw /\ [][NextDraw]_vars

\* SpecSets: recordings that rebind descriptor sets and pipelines of
\* several layouts
NextSets ==
  \/ Create \/ Begin \/ BeginRenderPass
  \/ BindDynamicViewportState \/ BindDynamicRasterState
  \/ BindDynamicColorBlendState \/ BindDynamicDepthStencilState
  \/ BindVertexBuffers \/ BindIndexBuffer
  \/ BindDescriptorSets \/ BindPipeline
  \/ BindManyDescriptorSets \/ BindSparseDescriptorSet
  \/ BindRuntimeOffset \/ BindLayoutPipeline
  \/ Draw \/ Dispatch

SpecSets == InitSets /\ [][NextSets]_vars

----------------------------------------------------------------------------
(* Properties of the batch chain                                           *)

Alive == pc \in {"Created", "Recording", "InPass", "Executable"}

IsEmitted(r) == ~r.chain

\* the caller's instructions found in the chain, oldest node first, each
\* with the node and offset where it lies now
RECURSIVE ChainStream(_, _)
ChainStream(cb, nodes) ==
  IF nodes = <<>> THEN <<>>
  ELSE LET d == SelectSeq(cb.bbo[nodes[1]].data, IsEmitted)
       IN [i \in 1 .. Len(d) |-> [bbo |-> nodes[1], ins |-> d[i]]]
          \o ChainStream(cb, Tail(nodes))

\* the contents of node b lie inside its block, in order, without overlap
NodeWellFormed(cb, b) ==
  LET d == cb.bbo[b].data
  IN /\ \A i \in 1 .. Len(d) : d[i].off >= 0 /\ d[i].off + 4 * d[i].dw <= BATCH_SIZE
     /\ \A i \in 1 .. Len(d) - 1 : d[i].off + 4 * d[i].dw = d[i + 1].off
     /\ Len(d) > 0 => d[1].off = 0

\* node b (not the tail) ends with a jump to node nxt, followed by padding
\* only, and the jump's address field has a relocation in b's slice
EndsWithJumpTo(cb, b, nxt) ==
  LET d == cb.bbo[b].data
      n == Len(d)
      j == IF n > 0 /\ d[n].op = "PAD" THEN n - 1 ELSE n
      slice == SubSeq(cb.batch_relocs, cb.bbo[b].first_reloc + 1,
                      cb.bbo[b].first_reloc + cb.bbo[b].num_relocs)
  IN /\ j >= 1
     /\ d[j].op = "MI_BATCH_BUFFER_START"
     /\ \A i \in 1 .. j - 1 : d[i].op \notin {"MI_BATCH_BUFFER_START", "PAD"}
     /\ cb.bbo[b].length = d[n].off + 4 * d[n].dw
     /\ cb.bbo[b].length % 8 = 0
     /\ \E i \in 1 .. Len(slice) :
          slice[i].offset = d[j].off + 4 /\ slice[i].bo = nxt
     /\ \A i \in 1 .. Len(slice) :
          slice[i].offset = d[j].off + 4 => slice[i].bo = nxt

\* C4: reading the primary chain oldest to newest yields exactly the
\* emitted instructions in emission order, each still where it was written
\* and whole inside one node, and every node but the tail ends with a jump
\* (plus padding only) whose relocation targets the next newer node.
C4_ChainIsEmittedStream ==
  Alive =>
    LET cb == cmd_buffer
        ch == PrimaryChain(cb)
    IN /\ ChainStream(cb, ch) = cb.g_log
       /\ \A i \in 1 .. Len(ch) : NodeWellFormed(cb, ch[i])
       /\ \A i \in 1 .. Len(ch) - 1 : EndsWithJumpTo(cb, ch[i], ch[i + 1])
       /\ Len(ch) >= 1
       /\ \A r \in 1 .. Len(cb.bbo[ch[Len(ch)]].data) :
            ~cb.bbo[ch[Len(ch)]].data[r].chain

\* C4 witness: three nodes, the first ended with jump and padding
C4_Witness ==
  /\ Alive
  /\ Len(PrimaryChain(cmd_buffer)) = 3
  /\ LET d == cmd_buffer.bbo[PrimaryChain(cmd_buffer)[1]].data
     IN d[Len(d)].op = "PAD"

RECURSIVE LogBytes(_)
LogBytes(log) ==
  IF log = <<>> THEN 0 ELSE 4 * log[1].ins.dw + LogBytes(Tail(log))

\* the bytes emitted by the callers since create or reset
total_size == LogBytes(cmd_buffer.g_log)

\* C5 as claimed: when the emits exceed one block, the chain has exactly
\* ceil(total_size / block_size) nodes.
C5_Original ==
  (Alive /\ total_size > BATCH_SIZE) =>
     Len(PrimaryChain(cmd_buffer)) = CeilDiv(total_size, BATCH_SIZE)

\* C5 amended: when the emits exceed one block, the chain has at least
\* ceil(total_size / (block_size - jump reserve)) nodes: a node gives the
\* callers its block less the bytes kept for the jump, and no instruction
\* is split.
C5_NodesAtLeast ==
  (Alive /\ total_size > BATCH_SIZE) =>
     Len(PrimaryChain(cmd_buffer)) >=
        CeilDiv(total_size, BATCH_SIZE - GEN8_MI_BATCH_BUFFER_START_length * 4)

\* C5 witness: emits beyond one block, and more nodes than the claimed count
C5_Witness ==
  /\ Alive /\ total_size > BATCH_SIZE
  /\ Len(PrimaryChain(cmd_buffer)) > CeilDiv(total_size, BATCH_SIZE)

----------------------------------------------------------------------------
(* Properties of the flush protocol, of end and of reset                   *)

DrawOps == {"Draw", "DrawIndexed", "DrawIndirect", "DrawIndexedIndirect"}
DispatchOps == {"Dispatch", "DispatchIndirect"}

\* the last call returned (no assertion failed in it)
Returned == pc # "Aborted"

Range(seq) == {seq[i] : i \in 1 .. Len(seq)}

\* the position of the last instruction op with sub-opcode sub in the log,
\* 0 if there is none
LastPointer(log, op, sub) ==
  LET S == {i \in 1 .. Len(log) : log[i].ins.op = op /\ log[i].ins.sub = sub}
  IN IF S = {} THEN 0 ELSE CHOOSE i \in S : \A j \in S : j <= i

\* the STATE_BASE_ADDRESS packets the last call emitted
CallBaseAddresses ==
  {i \in call.pre.log + 1 .. Len(cmd_buffer.g_log) :
     cmd_buffer.g_log[i].ins.op = "STATE_BASE_ADDRESS"}

\* the stage has a binding table / a sampler table under the bound pipeline
StageHasSurfaces(cb, stage) ==
  (IF stage = VK_SHADER_STAGE_FRAGMENT
   THEN Passes[cb.pass].subpasses[cb.subpass].color_count ELSE 0)
  + (IF StageLayout(cb, stage) # NULL
     THEN PipelineLayouts[StageLayout(cb, stage)].stage[stage].surface_count
     ELSE 0) > 0

StageHasSamplers(cb, stage) ==
  /\ StageLayout(cb, stage) # NULL
  /\ PipelineLayouts[StageLayout(cb, stage)].stage[stage].sampler_count > 0

\* a graphics flush of the last call took a new surface-state block
FlushRetried ==
  /\ call.op \in DrawOps /\ Returned
  /\ call.pre.surface_batch_bo # cmd_buffer.surface_batch_bo

\* C1: when a surface-state allocation fails during a graphics flush, the
\* flush adds exactly one node to the auxiliary chain, emits one
\* STATE_BASE_ADDRESS that names it, and afterwards the most recent
\* binding-table pointer of every active stage refers to a table allocated
\* in the new node and was emitted after that STATE_BASE_ADDRESS, as was
\* the stage's sampler pointer.
C1_RetryReemitsActiveStages ==
  FlushRetried =>
    LET cb == cmd_buffer
        log == cb.g_log
        new == cb.surface_batch_bo
        sba == CHOOSE i \in CallBaseAddresses : TRUE
    IN /\ SurfaceChain(cb) = Append(call.pre.surface_nodes, new)
       /\ new \notin Range(call.pre.surface_nodes)
       /\ Cardinality(CallBaseAddresses) = 1
       /\ log[sba].ins.addrs[1][2] = new
       /\ \A s \in Pipelines[cb.pipeline].active_stages :
            /\ StageHasSurfaces(cb, s) =>
                 LET i == LastPointer(log, "3DSTATE_BINDING_TABLE_POINTERS",
                                      binding_table_opcodes[s])
                 IN i > sba /\ log[i].ins.ref = new
            /\ StageHasSamplers(cb, s) =>
                 LastPointer(log, "3DSTATE_SAMPLER_STATE_POINTERS",
                             sampler_state_opcodes[s]) > sba

\* C1 witness: a flush that had pointed a stage at a table in the old node
\* before the allocation failed, and then took a new node
C1_Witness ==
  /\ FlushRetried
  /\ \E i \in call.pre.log + 1 .. Len(cmd_buffer.g_log) :
       /\ cmd_buffer.g_log[i].ins.op = "3DSTATE_BINDING_TABLE_POINTERS"
       /\ cmd_buffer.g_log[i].ins.ref = call.pre.surface_batch_bo

\* C2: after a graphics flush that returned, descriptors_dirty is its value
\* before the flush less the active stages of the bound pipeline.
C2_FlushClearsActiveStages ==
  (call.op \in DrawOps /\ Returned) =>
     cmd_buffer.descriptors_dirty =
        call.pre.descriptors_dirty
        \ Pipelines[call.pre.pipeline].active_stages

\* C2 witness: the flush cleared dirty stages and left dirty stages that the
\* pipeline does not use
C2_Witness ==
  /\ call.op \in DrawOps /\ Returned
  /\ call.pre.descriptors_dirty
       \cap Pipelines[call.pre.pipeline].active_stages # {}
  /\ cmd_buffer.descriptors_dirty \cap GraphicsStages # {}

\* C3: the flush of a dispatch clears the compute stage's descriptor-dirty
\* bit and compute_dirty, and leaves the descriptor-dirty bits of the
\* graphics stages, dirty and vb_dirty as they were.
C3_ComputeFlushClearsComputeOnly ==
  (call.op \in DispatchOps /\ Returned) =>
     /\ VK_SHADER_STAGE_COMPUTE \notin cmd_buffer.descriptors_dirty
     /\ cmd_buffer.compute_dirty = {}
     /\ cmd_buffer.descriptors_dirty \cap GraphicsStages =
          call.pre.descriptors_dirty \cap GraphicsStages
     /\ cmd_buffer.dirty = call.pre.dirty
     /\ cmd_buffer.vb_dirty = call.pre.vb_dirty

\* the position of bo in the object array, 0 if it is not there
Position(bos, bo) ==
  IF bo \in Range(bos) THEN CHOOSE i \in 1 .. Len(bos) : bos[i] = bo ELSE 0

Ended == call.op = "End" /\ pc = "Executable"

\* C6: after end, every node of the auxiliary chain is in the object array
\* before every node of the primary chain, and the oldest primary node is
\* the last object, at index bo_count - 1.
C6_FirstBatchBoLast ==
  Ended =>
    LET cb == cmd_buffer
        bos == cb.exec2_bos
    IN /\ cb.bo_count = Len(bos)
       /\ cb.execbuf.buffer_count = cb.bo_count
       /\ \A b \in Range(SurfaceChain(cb)) \cup Range(PrimaryChain(cb)) :
            Position(bos, b) > 0
       /\ \A s \in Range(SurfaceChain(cb)), p \in Range(PrimaryChain(cb)) :
            Position(bos, s) < Position(bos, p)
       /\ bos[cb.bo_count] = PrimaryChain(cb)[1]
       /\ bo_index[PrimaryChain(cb)[1]] = cb.bo_count - 1

\* C6 witness: end with three primary nodes and a grown auxiliary chain
C6_Witness ==
  /\ Ended
  /\ Len(PrimaryChain(cmd_buffer)) = 3
  /\ Len(SurfaceChain(cmd_buffer)) >= 2

\* no target of the list's entries has moved since the entry was added
AllPresumed(list) ==
  \A i \in 1 .. Len(list) : bo_offset[list[i].bo] = list[i].presumed_offset

\* C7: after end, I915_EXEC_NO_RELOC is set exactly when every entry of the
\* primary and of the auxiliary relocation list has a target whose address
\* is the presumed address of the entry.
C7_NoRelocIffAllPresumed ==
  Ended =>
    (("I915_EXEC_NO_RELOC" \in cmd_buffer.execbuf.flags)
       <=> (AllPresumed(cmd_buffer.batch_relocs)
            /\ AllPresumed(cmd_buffer.surface_relocs)))

\* C7 witness: the flag is clear because of an entry of the auxiliary list
\* alone
C7_Witness ==
  /\ Ended
  /\ "I915_EXEC_NO_RELOC" \notin cmd_buffer.execbuf.flags
  /\ AllPresumed(cmd_buffer.batch_relocs)
  /\ Len(cmd_buffer.batch_relocs) > 0
  /\ ~AllPresumed(cmd_buffer.surface_relocs)

\* C8: after reset each chain is its original first node alone, both
\* relocation lists are empty, the batch cursor is at the start of the
\* first node with the jump reserve kept free, and surface_next is 1.
C8_ResetLeavesFirstNodes ==
  (call.op = "Reset" /\ Returned) =>
    LET cb == cmd_buffer
    IN /\ PrimaryChain(cb) = <<call.pre.primary_nodes[1]>>
       /\ SurfaceChain(cb) = <<call.pre.surface_nodes[1]>>
       /\ {b \in BatchBos : cb.bbo[b].live} =
            {call.pre.primary_nodes[1], call.pre.surface_nodes[1]}
       /\ cb.batch_relocs = <<>> /\ cb.surface_relocs = <<>>
       /\ cb.batch_start = cb.last_batch_bo
       /\ cb.batch_next = 0
       /\ cb.batch_end = BATCH_SIZE - GEN8_MI_BATCH_BUFFER_START_length * 4
       /\ cb.bbo[cb.last_batch_bo].first_reloc = 0
       /\ cb.surface_next = 1

\* C8 witness: a reset of a recording with several nodes in both chains
C8_Witness ==
  /\ call.op = "Reset" /\ Returned
  /\ Len(call.pre.primary_nodes) >= 2
  /\ Len(call.pre.surface_nodes) >= 2
  /\ call.pre.relocs > 0

\* C9: right after create there is one node in each chain, both relocation
\* lists are empty, all four dirty masks are zero and no pipeline, dynamic
\* state or descriptor set is bound.
C9_CreateZeroesState ==
  (call.op = "Create" /\ Returned) =>
    LET cb == cmd_buffer
    IN /\ Len(PrimaryChain(cb)) = 1 /\ Len(SurfaceChain(cb)) = 1
       /\ cb.batch_relocs = <<>> /\ cb.surface_relocs = <<>>
       /\ cb.dirty = {} /\ cb.compute_dirty = {}
       /\ cb.vb_dirty = {} /\ cb.descriptors_dirty = {}
       /\ cb.pipeline = NULL /\ cb.compute_pipeline = NULL
       /\ cb.vp_state = NULL /\ cb.rs_state = NULL
       /\ cb.cb_state = NULL /\ cb.ds_state = NULL
       /\ \A i \in DOMAIN cb.descriptors : cb.descriptors[i].set = NULL

\* the instructions of a draw or dispatch itself
DrawInstructions ==
  {"3DPRIMITIVE", "GPGPU_WALKER", "MEDIA_STATE_FLUSH",
   "MI_LOAD_REGISTER_MEM", "MI_LOAD_REGISTER_IMM"}

\* C10: every draw and dispatch call runs the flush exactly once, first:
\* the flush starts where the call starts, all that the call emits after
\* the flush are the instructions of the draw or dispatch itself, with
\* one 3DPRIMITIVE or GPGPU_WALKER among them, and the flush emits none.
C10_FlushOnceBeforeDraw ==
  (call.op \in DrawOps \cup DispatchOps /\ Returned) =>
    LET cb == cmd_buffer
        log == cb.g_log
        ev == cb.g_events
    IN /\ Len(ev) = 1
       /\ ev[1].kind = IF call.op \in DrawOps THEN "graphics" ELSE "compute"
       /\ ev[1].from = call.pre.log
       /\ \A i \in ev[1].from + 1 .. ev[1].to :
            log[i].ins.op \notin DrawInstructions
       /\ \A i \in ev[1].to + 1 .. Len(log) :
            log[i].ins.op \in DrawInstructions
       /\ Cardinality({i \in ev[1].to + 1 .. Len(log) :
             log[i].ins.op = IF call.op \in DrawOps THEN "3DPRIMITIVE"
                             ELSE "GPGPU_WALKER"}) = 1

\* C10 witness: an indirect draw whose flush emitted state
C10_Witness ==
  /\ call.op = "DrawIndexedIndirect" /\ Returned
  /\ cmd_buffer.g_events[1].to > cmd_buffer.g_events[1].from
  /\ cmd_buffer.g_log[Len(cmd_buffer.g_log)].ins.op = "3DPRIMITIVE"

----------------------------------------------------------------------------
(* Properties of the lazily flushed state                                  *)

\* the calls of the recording that touch no state a flush reads
DrawAfterDraw ==
  /\ call.op \in DrawOps /\ call.prev \in DrawOps /\ Returned

\* the instructions the last call logged
CallLog ==
  SubSeq(cmd_buffer.g_log, call.pre.log + 1, Len(cmd_buffer.g_log))

\* C11: a draw right after a draw emits nothing in its flush: the flush
\* logs no instruction, the auxiliary block, its cursor and the dynamic
\* state cursor stay where they were, the auxiliary relocation list is as
\* long as before, and what the call emits is its 3DPRIMITIVE, the register
\* loads of an indirect draw, and a jump for each node the chain grew by;
\* the only relocations added are those of the register loads and jumps.
C11_DrawAfterDrawEmitsOnlyDraw ==
  DrawAfterDraw =>
    LET cb == cmd_buffer
        ev == cb.g_events
        jumps == Len(PrimaryChain(cb)) - Len(call.pre.primary_nodes)
        loads == Cardinality({i \in 1 .. Len(CallLog) :
                                CallLog[i].ins.op = "MI_LOAD_REGISTER_MEM"})
    IN /\ ev[1].from = ev[1].to
       /\ cb.surface_batch_bo = call.pre.surface_batch_bo
       /\ cb.surface_next = call.pre.surface_next
       /\ cb.dynamic_next = call.pre.dynamic_next
       /\ SurfaceChain(cb) = call.pre.surface_nodes
       /\ \A i \in 1 .. Len(CallLog) : CallLog[i].ins.op \in DrawInstructions
       /\ call.op \in {"Draw", "DrawIndexed"} =>
            /\ Len(CallLog) = 1 /\ CallLog[1].ins.op = "3DPRIMITIVE"
            /\ loads = 0
       /\ Len(cb.batch_relocs) + Len(cb.surface_relocs) =
            call.pre.relocs + loads + jumps

\* C11 witness: a direct draw right after a draw that had state to flush
C11_Witness ==
  /\ DrawAfterDraw
  /\ call.op = "Draw"
  /\ Len(cmd_buffer.g_log) > 1
  /\ cmd_buffer.dirty = {}

\* the vertex-buffer slots a graphics flush of the last call had to emit
CallVbEmit == call.pre.vb_dirty \cap Pipelines[call.pre.pipeline].vb_used

\* the 3DSTATE_VERTEX_BUFFERS instructions the last call logged
CallVertexBuffers ==
  {i \in 1 .. Len(CallLog) : CallLog[i].ins.op = "3DSTATE_VERTEX_BUFFERS"}

\* the buffer addresses (bo, offset) an instruction names
Addresses3(ins) == {<<ins.addrs[k][2], ins.addrs[k][3]>> : k \in 1 .. Len(ins.addrs)}

\* C12: binding a graphics pipeline sets the pipeline-dirty bit and adds
\* the pipeline's vb_used to vb_dirty; the next graphics flush emits one
\* VERTEX_BUFFER_STATE for each slot of vb_dirty \cap vb_used and for no
\* other, takes exactly those slots out of vb_dirty and so leaves the
\* dirty slots the pipeline does not read.
C12_VertexBuffersUsedAndDirty ==
  /\ (call.op = "BindPipeline" /\ call.arg \in GraphicsPipelines /\ Returned) =>
       /\ cmd_buffer.pipeline = call.arg
       /\ "PIPELINE" \in cmd_buffer.dirty
       /\ cmd_buffer.dirty = call.pre.dirty \cup {"PIPELINE"}
       /\ cmd_buffer.vb_dirty =
            call.pre.vb_dirty \cup Pipelines[call.arg].vb_used
  /\ (call.op \in DrawOps /\ Returned) =>
       /\ cmd_buffer.vb_dirty = call.pre.vb_dirty \ CallVbEmit
       /\ CallVbEmit = {} => CallVertexBuffers = {}
       /\ CallVbEmit # {} =>
            /\ Cardinality(CallVertexBuffers) = 1
            /\ \A i \in CallVertexBuffers :
                 /\ CallLog[i].ins.dw = 1 + 4 * Cardinality(CallVbEmit)
                 /\ Len(CallLog[i].ins.addrs) = Cardinality(CallVbEmit)
                 /\ Addresses3(CallLog[i].ins) =
                      {<<Buffers[cmd_buffer.vertex_bindings[vb].buffer].bo,
                         Buffers[cmd_buffer.vertex_bindings[vb].buffer].offset
                           + cmd_buffer.vertex_bindings[vb].offset>> :
                         vb \in CallVbEmit}
                 /\ i <= cmd_buffer.g_events[1].to - call.pre.log

\* C12 witness: a flush with a dirty slot the pipeline reads and a dirty
\* slot it does not read; the first is emitted, the second stays dirty
C12_Witness ==
  /\ call.op \in DrawOps /\ Returned
  /\ CallVbEmit # {}
  /\ call.pre.vb_dirty \ CallVbEmit # {}
  /\ cmd_buffer.vb_dirty = call.pre.vb_dirty \ CallVbEmit
  /\ CallVertexBuffers # {}

FlushOps == DrawOps \cup DispatchOps

\* the nodes the last call added to the auxiliary chain
NewSurfaceNodes ==
  Len(SurfaceChain(cmd_buffer)) - Len(call.pre.surface_nodes)

\* the stages the flush of the last call emits tables for
FlushedStages ==
  IF call.op \in DrawOps
  THEN Pipelines[cmd_buffer.pipeline].active_stages
  ELSE VK_SHADER_STAGE_COMPUTE_BIT

\* the last call pointed stage s at a binding table in the current
\* auxiliary node
PointsIntoCurrentNode(s) ==
  \E i \in 1 .. Len(CallLog) :
     /\ CallLog[i].ins.ref = cmd_buffer.surface_batch_bo
     /\ IF s = VK_SHADER_STAGE_COMPUTE
        THEN CallLog[i].ins.op = "MEDIA_INTERFACE_DESCRIPTOR_LOAD"
        ELSE /\ CallLog[i].ins.op = "3DSTATE_BINDING_TABLE_POINTERS"
             /\ CallLog[i].ins.sub = binding_table_opcodes[s]

\* C13: a flush takes at most one new auxiliary node; when it took one,
\* either every stage it flushes has its binding table in the new node, or
\* the call ended in the failed assertion that the retry succeeded.
C13_OneRetryThenAssert ==
  call.op \in FlushOps =>
    /\ NewSurfaceNodes \in {0, 1}
    /\ NewSurfaceNodes = 1 =>
         \/ /\ Returned
            /\ \A s \in FlushedStages :
                 StageHasSurfaces(cmd_buffer, s) => PointsIntoCurrentNode(s)
         \/ /\ pc = "Aborted"
            /\ cmd_buffer.abort = "assert(result == VK_SUCCESS)"
            /\ \E s \in FlushedStages :
                 StageHasSurfaces(cmd_buffer, s) /\ ~PointsIntoCurrentNode(s)

\* C13 witness: a draw whose tables do not fit the new node either
C13_Witness ==
  /\ call.op \in DrawOps
  /\ NewSurfaceNodes = 1
  /\ pc = "Aborted"
  /\ cmd_buffer.abort = "assert(result == VK_SUCCESS)"

\* the entries of the binding table of stage s whose slot of the bound set
\* has no view, and the entries of its sampler table whose slot has no sampler
SurfaceHoles(s) ==
  IF StageLayout(cmd_buffer, s) = NULL THEN {}
  ELSE {it.entry : it \in {x \in Range(DescriptorItems(
                                  cmd_buffer, s, StageLayout(cmd_buffer, s),
                                  IF s = VK_SHADER_STAGE_FRAGMENT
                                  THEN MAX_RTS ELSE 0, 0)) : x.hole}}

SamplerHoles(s) ==
  IF StageLayout(cmd_buffer, s) = NULL THEN {}
  ELSE {it.entry : it \in {x \in Range(SamplerItems(
                                  cmd_buffer, s, StageLayout(cmd_buffer, s),
                                  0)) : x.hole}}

\* the table entries the last call wrote a state of the kind for, in stage s
StatesWritten(kind, s) ==
  {r.entry : r \in {x \in Range(cmd_buffer.g_states) :
                      x.kind = kind /\ x.stage = s}}

\* the number of table entries of the kind that stage s has in its layout
TableEntries(kind, s) ==
  IF StageLayout(cmd_buffer, s) = NULL THEN 0
  ELSE IF kind = "surface"
  THEN PipelineLayouts[StageLayout(cmd_buffer, s)].stage[s].surface_count
  ELSE PipelineLayouts[StageLayout(cmd_buffer, s)].stage[s].sampler_count

\* the surface states the last call wrote
SurfaceStatesWritten ==
  {i \in 1 .. Len(cmd_buffer.g_states) : cmd_buffer.g_states[i].kind = "surface"}

\* C14: a flush that walks a set with a slot that holds no descriptor
\* returns; it writes no surface state and no sampler state for the entry
\* of such a slot and adds no relocation for it (every relocation the call
\* adds to the auxiliary list belongs to a surface state it wrote), and
\* when it returns it has written the state of every other entry of the
\* table, those after the hole included.  A dispatch that fits its block
\* takes the table and one 64-byte state per written entry, nothing else.
C14_HolesAreSkipped ==
  call.op \in FlushOps =>
    /\ Len(cmd_buffer.surface_relocs) - call.pre.surface_relocs
         = Cardinality(SurfaceStatesWritten)
    /\ \A s \in FlushedStages :
         /\ StatesWritten("surface", s) \cap SurfaceHoles(s) = {}
         /\ StatesWritten("sampler", s) \cap SamplerHoles(s) = {}
         /\ SurfaceHoles(s) \cup SamplerHoles(s) # {} =>
              /\ Returned
              /\ StatesWritten("surface", s) \cup StatesWritten("sampler", s) # {}
                   => /\ StatesWritten("surface", s)
                           = (0 .. TableEntries("surface", s) - 1)
                               \ SurfaceHoles(s)
                      /\ StatesWritten("sampler", s)
                           = (0 .. TableEntries("sampler", s) - 1)
                               \ SamplerHoles(s)
    /\ /\ call.op \in DispatchOps /\ NewSurfaceNodes = 0 /\ Returned
       /\ StatesWritten("surface", VK_SHADER_STAGE_COMPUTE) # {}
       => cmd_buffer.surface_next
            = align_u32(align_u32(call.pre.surface_next, 32)
                          + 4 * TableEntries("surface", VK_SHADER_STAGE_COMPUTE),
                        64)
              + 64 * Cardinality(StatesWritten("surface",
                                               VK_SHADER_STAGE_COMPUTE))

\* a draw walked the set whose second uniform buffer and first sampler were
\* never written: the vertex stage got the surface states of entries 0 and
\* 2 and the sampler state of entry 1
C14_Witness ==
  /\ call.op \in DrawOps /\ Returned
  /\ cmd_buffer.descriptors[0].set = 2
  /\ SurfaceHoles(VK_SHADER_STAGE_VERTEX) = {1}
  /\ SamplerHoles(VK_SHADER_STAGE_VERTEX) = {0}
  /\ StatesWritten("surface", VK_SHADER_STAGE_VERTEX) = {0, 2}
  /\ StatesWritten("sampler", VK_SHADER_STAGE_VERTEX) = {1}

\* the surface states the last call filled for a slot with a dynamic offset,
\* each with the view of the slot and the offset its set was bound with.
\* Only the first set layout has such a slot, its first surface of the
\* vertex stage, and a pipeline layout holds that set layout once per set:
\* entry e of the vertex binding table is the slot of set e.
DynamicStates ==
  {[state |-> r, view |-> Views[1],
    d |-> cmd_buffer.descriptors[r.entry].dynamic_offsets[1]] :
     r \in {x \in Range(cmd_buffer.g_states) : x.kind = "surface" /\ x.fill}}

\* a uint32_t given as <<high half, low half>> is at most n
LeqU32(pair, n) == pair[1] < 32768 /\ pair[1] * 65536 + pair[2] <= n

\* C15: for a slot with a dynamic offset, whatever offset d the set was
\* bound with, the relocation of the surface state has delta
\* view.offset + d, the range given to fill_buffer_surface_state is
\* view.range - d, and that range is not larger than view.range
C15_DynamicOffsetNarrows ==
  call.op \in FlushOps =>
    \A s \in DynamicStates :
       /\ s.state.delta = s.view.offset + s.d
       /\ s.state.range = uint32_sub(s.view.range, s.d)
       /\ LeqU32(s.state.range, s.view.range)

----------------------------------------------------------------------------
(* Two threads that end two command buffers of one device                  *)

Threads == {1, 2}

\* what the application recorded into a command buffer before it ends it,
\* as the emits after anv_BeginCommandBuffer, <<dwords, bo of the address
\* field>>: nothing, a packet with the address of the image, and enough
\* to chain the batch before that packet
Recordings ==
  { <<>>,
    << <<16, IMAGE_BO>> >>,
    << <<BatchQwords - 1, NULL>>, <<BatchQwords - 1, NULL>>, <<16, IMAGE_BO>> >> }

RECURSIVE Record(_, _)
Record(cb, emits) ==
  IF emits = <<>> THEN cb
  ELSE CHOOSE r \in
         {Record(c, Tail(emits)) :
            c \in {anv_batch_emit(cb, InstrN("EMIT", emits[1][1],
                                             IF emits[1][2] = NULL THEN <<>>
                                             ELSE << <<1, emits[1][2], 0>> >>))}} :
         TRUE

\* a command buffer created while the batch bos of the set taken belong to
\* other command buffers of the device, begun, and recorded into
Recorded(taken, emits) ==
  CHOOSE r \in
    {Record(c, emits) :
       c \in {anv_BeginCommandBuffer(c0) :
                c0 \in {CreateCommandBufferIn(
                          [NoCmdBuffer EXCEPT !.bbo =
                             [b \in BatchBos |->
                                IF b \in taken
                                THEN [NoBbo EXCEPT !.live = TRUE]
                                ELSE NoBbo]], 0)}}} :
    TRUE

\* the batch bos of a command buffer: the nodes of its two chains
OwnBbos(cb) == Range(PrimaryChain(cb)) \cup Range(SurfaceChain(cb))

\* the anv_cmd_buffer_add_bo calls of the loops of anv_EndCommandBuffer for
\* the nodes of a chain, newest first; nodes is oldest first
ChainWork(bbo, nodes, list) ==
  [i \in 1 .. Len(nodes) |->
     [bo |-> nodes[Len(nodes) + 1 - i], list |-> list,
      first |-> bbo[nodes[Len(nodes) + 1 - i]].first_reloc,
      num_relocs |-> bbo[nodes[Len(nodes) + 1 - i]].num_relocs]]

\* those of anv_cmd_buffer_add_validate_bos
ValidateWork(list) ==
  [i \in 1 .. Len(list) |->
     [bo |-> list[i].bo, list |-> "", first |-> 0, num_relocs |-> 0]]

\* all anv_cmd_buffer_add_bo calls of anv_EndCommandBuffer, in its order
EndWork(cb) ==
  ChainWork(cb.bbo, SurfaceChain(cb), "surface")
  \o ValidateWork(cb.surface_relocs)
  \o ChainWork(cb.bbo, Tail(PrimaryChain(cb)), "batch")
  \o ValidateWork(cb.batch_relocs)
  \o ChainWork(cb.bbo, <<PrimaryChain(cb)[1]>>, "batch")

\* bo->index as earlier calls of anv_EndCommandBuffer may have left it
StaleIndexes == { [b \in Bos |-> 0], [b \in Bos |-> b - 1] }

\* two recorded command buffers, each with its own batch bos of the
\* device's pool, and a thread about to end each
InitEnd ==
  /\ pc = "Initial"
  /\ cmd_buffer = NoCmdBuffer
  /\ bo_offset = [b \in Bos |-> 0]
  /\ bo_index \in StaleIndexes
  /\ call = [op |-> "", arg |-> 0, pre |-> Pre(NoCmdBuffer), prev |-> ""]
  /\ mutex = NULL
  /\ PipelineLayouts = CreatedPipelineLayouts
  /\ vector = NoVector
  /\ lists = <<>>
  /\ \E r1 \in Recordings, r2 \in Recordings :
       \E c1 \in {Recorded({}, r1)} :
          \E c2 \in {Recorded(OwnBbos(c1), r2)} :
             /\ ~c2.bound
             /\ thread =
                  [t \in Threads |->
                     [pc |-> "Recorded", cb |-> IF t = 1 THEN c1 ELSE c2,
                      work |-> <<>>, g_waited |-> FALSE]]

\* pthread_mutex_lock that does not wait for the mutex
pthread_mutex_lock_no_wait(m) == TRUE

\* pthread_mutex_lock returns once no thread holds the mutex
pthread_mutex_lock(m) == m = NULL

\* anv_EndCommandBuffer up to pthread_mutex_lock
EndStart(t) ==
  /\ thread[t].pc = "Recorded"
  /\ thread' = [thread EXCEPT
                  ![t].cb = anv_EndCommandBuffer_finish(@),
                  ![t].pc = "Lock"]
  /\ UNCHANGED <<pc, cmd_buffer, bo_offset, bo_index, call, mutex,
                 PipelineLayouts, lists, vector>>

\* pthread_mutex_lock(&device->mutex); ghost: a thread that has reached
\* its own pthread_mutex_lock by now has to wait
EndLock(t) ==
  /\ thread[t].pc = "Lock"
  /\ pthread_mutex_lock(mutex)
  /\ mutex' = t
  /\ thread' = [u \in Threads |->
                  IF u = t
                  THEN [thread[u] EXCEPT !.pc = "AddBos",
                                         !.work = EndWork(thread[u].cb)]
                  ELSE [thread[u] EXCEPT
                          !.g_waited = @ \/ thread[u].pc = "Lock"]]
  /\ UNCHANGED <<pc, cmd_buffer, bo_offset, bo_index, call, PipelineLayouts,
                 lists, vector>>

\* the next anv_cmd_buffer_add_bo of the loops
EndAddBo(t) ==
  /\ thread[t].pc = "AddBos"
  /\ thread[t].work # <<>>
  /\ LET Added(ex) ==
           /\ thread' = [thread EXCEPT
                           ![t].cb.exec2_bos = ex.bos,
                           ![t].cb.exec2_objects = ex.objects,
                           ![t].cb.bo_count = Len(ex.bos),
                           ![t].work = Tail(@)]
           /\ bo_index' = ex.index
         Add(cb, w) ==
           Added(anv_cmd_buffer_add_bo(
                   [bos |-> cb.exec2_bos, objects |-> cb.exec2_objects,
                    index |-> bo_index],
                   w.bo, w.list, w.first, w.num_relocs))
     IN Add(thread[t].cb, thread[t].work[1])
  /\ UNCHANGED <<pc, cmd_buffer, bo_offset, call, mutex, PipelineLayouts,
                 lists, vector>>

\* the assertion on the first batch bo, the two
\* anv_cmd_buffer_process_relocs and the execbuf
EndProcess(t) ==
  /\ thread[t].pc = "AddBos"
  /\ thread[t].work = <<>>
  /\ LET Done(r) ==
           thread' = [thread EXCEPT
                        ![t].cb = [r EXCEPT !.g_index = <<>>],
                        ![t].pc = IF r.abort # "" THEN "Aborted"
                                  ELSE "Unlock"]
         Process(cb) ==
           Done(anv_EndCommandBuffer_relocs(
                  cb, [bos |-> cb.exec2_bos, objects |-> cb.exec2_objects,
                       index |-> bo_index]))
     IN Process(thread[t].cb)
  /\ UNCHANGED <<pc, cmd_buffer, bo_offset, bo_index, call, mutex,
                 PipelineLayouts, lists, vector>>

\* pthread_mutex_unlock(&device->mutex); return VK_SUCCESS
EndUnlock(t) ==
  /\ thread[t].pc = "Unlock"
  /\ mutex' = NULL
  /\ thread' = [thread EXCEPT ![t].pc = "Returned"]
  /\ UNCHANGED <<pc, cmd_buffer, bo_offset, bo_index, call, PipelineLayouts,
                 lists, vector>>

NextEnd ==
  \E t \in Threads :
     \/ EndStart(t) \/ EndLock(t) \/ EndAddBo(t) \/ EndProcess(t)
     \/ EndUnlock(t)

SpecEnd == InitEnd /\ [][NextEnd]_vars

\* the relocation targets of a command buffer
Targets(cb) ==
  {cb.surface_relocs[i].bo : i \in 1 .. Len(cb.surface_relocs)}
  \cup {cb.batch_relocs[i].bo : i \in 1 .. Len(cb.batch_relocs)}

\* the blocks both command buffers' relocation lists reference
CommonBlocks == Targets(thread[1].cb) \cap Targets(thread[2].cb)

\* every entry of the list names the position of its target in bos
IndexesMatch(list, bos) ==
  \A i \in 1 .. Len(list) :
     /\ list[i].target_handle >= 0
     /\ list[i].target_handle < Len(bos)
     /\ bos[list[i].target_handle + 1] = list[i].bo

Occurrences(bos, b) == Cardinality({i \in 1 .. Len(bos) : bos[i] = b})

\* C16: when two threads end two command buffers of the device whose
\* relocation lists reference a common block, no call fails its assertion,
\* and once both have returned every relocation entry of either command
\* buffer names the position of its target in that command buffer's own
\* object array, which holds every common block exactly once
C16_ConcurrentEndKeepsIndexes ==
  /\ \A t \in Threads : thread[t].pc # "Aborted"
  /\ (\A t \in Threads : thread[t].pc = "Returned") =>
       \A t \in Threads :
          /\ IndexesMatch(thread[t].cb.surface_relocs, thread[t].cb.exec2_bos)
          /\ IndexesMatch(thread[t].cb.batch_relocs, thread[t].cb.exec2_bos)
          /\ \A b \in CommonBlocks :
                Occurrences(thread[t].cb.exec2_bos, b) = 1

\* both threads returned, one of them had to wait for the mutex, and the
\* image both reference sits at different positions in the two arrays
C16_Witness ==
  /\ \A t \in Threads : thread[t].pc = "Returned"
  /\ \E t \in Threads : thread[t].g_waited
  /\ IMAGE_BO \in CommonBlocks
  /\ \E i, j \in 1 .. MaxBbos + 4 :
       /\ i # j
       /\ i <= Len(thread[1].cb.exec2_bos) /\ thread[1].cb.exec2_bos[i] = IMAGE_BO
       /\ j <= Len(thread[2].cb.exec2_bos) /\ thread[2].cb.exec2_bos[j] = IMAGE_BO

\* ---------------------------------------------------------------------
\* struct anv_reloc_list with its backing arrays
\* ---------------------------------------------------------------------

\* list->array_length of anv_reloc_list_init; the code's value is 256, the
\* model's is small enough for the arrays to fill up and grow
RelocArrayLength == 2

\* bound on the entries of the list the calls act on
MaxRelocs == 5

\* bound on the entries of the list that is appended
MaxOtherRelocs == 2

\* an array element no call has written yet (allocated, uninitialised)
JunkReloc == Reloc(0 - 1, NULL, 0 - 1, 0 - 1)

\* a fresh array of `length` elements whose first `count` elements are
\* copied from `from`: the anv_device_alloc and memcpy pair of the code
RelocArray(length, from, count) ==
  [i \in 1 .. length |-> IF i <= count THEN from[i] ELSE JunkReloc]

\* the list after anv_reloc_list_init; relocs and reloc_bos are parallel
\* arrays, modelled as one array whose elements carry the bo
RelocListInit ==
  [num_relocs |-> 0, array_length |-> RelocArrayLength,
   relocs |-> RelocArray(RelocArrayLength, <<>>, 0)]

\* the loop `while (new_length < wanted) new_length *= 2`
RECURSIVE NewLength(_, _)
NewLength(new_length, wanted) ==
  IF new_length < wanted THEN NewLength(new_length * 2, wanted)
  ELSE new_length

\* the grow whose memcpy is left out
anv_reloc_list_grow_no_copy(list, num_additional_relocs) ==
  IF list.num_relocs + num_additional_relocs <= list.array_length THEN list
  ELSE [list EXCEPT !.relocs =
          RelocArray(NewLength(list.array_length * 2,
                               list.num_relocs + num_additional_relocs),
                     <<>>, 0)]

\* anv_reloc_list_grow with both allocations succeeding; the code leaves
\* list->array_length at its old value
anv_reloc_list_grow(list, num_additional_relocs) ==
  IF list.num_relocs + num_additional_relocs <= list.array_length THEN list
  ELSE [list EXCEPT !.relocs =
          RelocArray(NewLength(list.array_length * 2,
                               list.num_relocs + num_additional_relocs),
                     list.relocs, list.num_relocs)]

\* the add that skips an entry equal to the last one
RelocListAdd_deduplicates(list, offset, target_bo, delta) ==
  LET entry == Reloc(offset, target_bo, delta, bo_offset[target_bo])
      grown == anv_reloc_list_grow(list, 1)
  IN  IF list.num_relocs > 0 /\ list.relocs[list.num_relocs] = entry
      THEN list
      ELSE [grown EXCEPT !.num_relocs = @ + 1,
                         !.relocs[list.num_relocs + 1] = entry]

\* anv_reloc_list_add on the struct: index = list->num_relocs++ and the
\* stores through entry and reloc_bos[index]
RelocListAdd(list, offset, target_bo, delta) ==
  LET grown == anv_reloc_list_grow(list, 1)
  IN  [grown EXCEPT !.num_relocs = @ + 1,
                    !.relocs[list.num_relocs + 1] =
                       Reloc(offset, target_bo, delta, bo_offset[target_bo])]

\* the value anv_reloc_list_add returns
RelocListAddReturn(target_bo, delta) == bo_offset[target_bo] + delta

\* anv_reloc_list_append on the struct: the two memcpy, the loop that adds
\* offset, and the new num_relocs
RelocListAppend(list, other, offset) ==
  LET grown == anv_reloc_list_grow(list, other.num_relocs)
      Copied(i) == other.relocs[i - list.num_relocs]
  IN  [grown EXCEPT
         !.num_relocs = @ + other.num_relocs,
         !.relocs = [i \in DOMAIN grown.relocs |->
                       IF i \in list.num_relocs + 1 ..
                                list.num_relocs + other.num_relocs
                       THEN [Copied(i) EXCEPT !.offset = @ + offset]
                       ELSE grown.relocs[i]]]

\* the entries of a list: the first num_relocs elements of its array
Entries(list) == [i \in 1 .. list.num_relocs |-> list.relocs[i]]

\* the (offset, target_bo, delta) of the calls of anv_reloc_list_add
RelocArgs == { <<0, BUFFER_BO, 0>>, <<8, IMAGE_BO, 16>> }

\* the offset arguments of anv_reloc_list_append
AppendOffsets == {0, 64}

\* two lists after anv_reloc_list_init, no call yet
InitRelocs ==
  /\ pc = "Initial"
  /\ cmd_buffer = NoCmdBuffer
  /\ bo_offset = [b \in Bos |-> 0]
  /\ bo_index = [b \in Bos |-> 0]
  /\ call = [op |-> "", arg |-> 0, pre |-> Pre(NoCmdBuffer), prev |-> ""]
  /\ mutex = NULL
  /\ thread = <<>>
  /\ PipelineLayouts = CreatedPipelineLayouts
  /\ vector = NoVector
  /\ lists = [list |-> RelocListInit, other |-> RelocListInit,
              op |-> "", args |-> <<>>, ret |-> 0,
              pre_list |-> RelocListInit, pre_other |-> RelocListInit]

\* anv_reloc_list_add(list, device, offset, target_bo, delta)
RelocAdd ==
  /\ lists.list.num_relocs < MaxRelocs
  /\ \E a \in RelocArgs :
       lists' = [lists EXCEPT
                   !.list = RelocListAdd(@, a[1], a[2], a[3]),
                   !.ret = RelocListAddReturn(a[2], a[3]),
                   !.op = "add", !.args = a,
                   !.pre_list = lists.list, !.pre_other = lists.other]
  /\ UNCHANGED <<pc, cmd_buffer, bo_offset, bo_index, call, mutex, thread,
                 PipelineLayouts, vector>>

\* anv_reloc_list_add(other, device, offset, target_bo, delta)
RelocAddOther ==
  /\ lists.other.num_relocs < MaxOtherRelocs
  /\ \E a \in RelocArgs :
       lists' = [lists EXCEPT
                   !.other = RelocListAdd(@, a[1], a[2], a[3]),
                   !.ret = RelocListAddReturn(a[2], a[3]),
                   !.op = "add_other", !.args = a,
                   !.pre_list = lists.list, !.pre_other = lists.other]
  /\ UNCHANGED <<pc, cmd_buffer, bo_offset, bo_index, call, mutex, thread,
                 PipelineLayouts, vector>>

\* anv_reloc_list_append(list, device, other, offset)
RelocAppend ==
  /\ lists.list.num_relocs + lists.other.num_relocs <= MaxRelocs
  /\ \E offset \in AppendOffsets :
       lists' = [lists EXCEPT
                   !.list = RelocListAppend(@, lists.other, offset),
                   !.op = "append", !.args = <<offset>>,
                   !.pre_list = lists.list, !.pre_other = lists.other]
  /\ UNCHANGED <<pc, cmd_buffer, bo_offset, bo_index, call, mutex, thread,
                 PipelineLayouts, vector>>

\* the kernel places a bo elsewhere and bo->offset follows (device.c
\* 948-949)
RelocMoves ==
  /\ \E b \in MovableBos, a \in Addresses :
       /\ bo_offset[b] # a
       /\ bo_offset' = [bo_offset EXCEPT ![b] = a]
  /\ lists' = [lists EXCEPT !.op = "move", !.args = <<>>,
                            !.pre_list = lists.list,
                            !.pre_other = lists.other]
  /\ UNCHANGED <<pc, cmd_buffer, bo_index, call, mutex, thread,
                 PipelineLayouts, vector>>

NextRelocs == RelocAdd \/ RelocAddOther \/ RelocAppend \/ RelocMoves

SpecRelocs == InitRelocs /\ [][NextRelocs]_vars

\* C17: anv_reloc_list_add never deduplicates.  Every call, whatever the
\* list already holds, makes the entry count one more, leaves the earlier
\* entries as they were, stores as the new last entry the call's offset,
\* target bo and delta with the bo's current offset as presumed_offset,
\* and returns the bo's current offset plus delta; two calls with the same
\* arguments so leave two entries with equal fields.
C17_AddNeverDeduplicates ==
  lists.op \in {"add", "add_other"} =>
    LET pre == IF lists.op = "add" THEN lists.pre_list ELSE lists.pre_other
        now == IF lists.op = "add" THEN lists.list ELSE lists.other
        a == lists.args
    IN  /\ now.num_relocs = pre.num_relocs + 1
        /\ \A i \in 1 .. pre.num_relocs : now.relocs[i] = pre.relocs[i]
        /\ now.relocs[now.num_relocs] =
             Reloc(a[1], a[2], a[3], bo_offset[a[2]])
        /\ lists.ret = bo_offset[a[2]] + a[3]
        /\ Entries(now) = anv_reloc_list_add(Entries(pre), a[1], a[2], a[3])

\* two calls in a row with identical arguments have left two equal
\* entries, the second one stored in a grown array
C17_Witness ==
  /\ lists.op = "add"
  /\ lists.list.num_relocs = RelocArrayLength + 1
  /\ lists.list.relocs[RelocArrayLength] =
       lists.list.relocs[RelocArrayLength + 1]
  /\ lists.list.relocs[RelocArrayLength + 1].presumed_offset # 0
  /\ Len(lists.list.relocs) > RelocArrayLength

\* C18: after anv_reloc_list_append(list, other, offset) the last
\* other->num_relocs entries of list are other's entries in order, with the
\* same target bo, delta and presumed offset and with offset more in their
\* offset field; the entries list held before and the whole of other are
\* as they were.  This holds for all sizes, whether the arrays of list had
\* room or had to grow.
C18_AppendShiftsCopies ==
  lists.op = "append" =>
    LET pre == lists.pre_list
        other == lists.pre_other
        now == lists.list
    IN  /\ now.num_relocs = pre.num_relocs + other.num_relocs
        /\ \A i \in 1 .. other.num_relocs :
             LET copy == now.relocs[pre.num_relocs + i]
             IN  /\ copy.bo = other.relocs[i].bo
                 /\ copy.target_handle = other.relocs[i].target_handle
                 /\ copy.delta = other.relocs[i].delta
                 /\ copy.presumed_offset = other.relocs[i].presumed_offset
                 /\ copy.offset = other.relocs[i].offset + lists.args[1]
        /\ \A i \in 1 .. pre.num_relocs : now.relocs[i] = pre.relocs[i]
        /\ lists.other = other
        /\ Entries(now) =
             anv_reloc_list_append(Entries(pre), Entries(other), lists.args[1])

\* an append of two entries, shifted by a non-zero offset, to a list that
\* held entries and whose arrays had to grow, to more than twice their
\* initial length
C18_Witness ==
  /\ lists.op = "append"
  /\ lists.args[1] > 0
  /\ lists.pre_other.num_relocs = 2
  /\ lists.pre_list.num_relocs > 0
  /\ Len(lists.list.relocs) > 2 * RelocArrayLength
  /\ Len(lists.list.relocs) > Len(lists.pre_list.relocs)
  /\ lists.list.relocs[lists.list.num_relocs].presumed_offset # 0

\* ---------------------------------------------------------------------
\* anv_batch_emit_batch and anv_batch_emit_dwords on a command buffer's
\* batch
\* ---------------------------------------------------------------------

\* calls the application chooses freely, in SpecEmit
MaxEmitCalls == 5

\* the batches copied into the command buffer's batch: the precompiled
\* batches of a graphics and of a compute pipeline, and a short batch with
\* two relocations
OtherBatches ==
  { Pipelines[1].batch, Pipelines[2].batch,
    [dw |-> 4, relocs |-> << Reloc(0, INSTRUCTION_BO, 0, 0),
                             Reloc(8, BUFFER_BO, 16, 0) >>] }

\* one anv_batch_emit_batch(&cmd_buffer->batch, other) by any caller
EmitBatch ==
  /\ pc = "Recording"
  /\ \E other \in OtherBatches :
       Returns(anv_batch_emit_batch(Enter(cmd_buffer), other),
               "EmitBatch", other, "Recording", 1)
  /\ UNCHANGED <<bo_offset, bo_index>>

\* one anv_batch_emitn of as many dwords as a whole block holds, more than
\* a block has room for once the jump's dwords are reserved
BatchEmitLarge ==
  /\ pc = "Recording"
  /\ Returns(anv_batch_emit(Enter(cmd_buffer),
                            InstrN("EMIT", BATCH_SIZE \div 4, <<>>)),
             "BatchEmitLarge", BATCH_SIZE \div 4, "Recording", 1)
  /\ UNCHANGED <<bo_offset, bo_index>>

NextEmit ==
  \/ Create \/ Begin \/ BatchEmit \/ BatchEmitLarge \/ EmitBatch \/ End
  \/ Reset \/ QueueSubmitMoves

InitEmit == InitWith(MaxEmitCalls)

SpecEmit == InitEmit /\ [][NextEmit]_vars

\* the call did not fit at the cursor it found, so that it extended the
\* batch
Extended(size) == call.pre.batch_next + size > call.pre.batch_end

\* the offset, from the start of its block, of what the call wrote
WrittenAt(size) == IF Extended(size) THEN 0 ELSE call.pre.batch_next

\* C19: anv_batch_emit_batch(batch, other) copies other's bytes to the
\* cursor of batch, advances the cursor by other's size, and appends
\* other's relocations with their offsets shifted by the distance of the
\* copy from the start of the block that receives it.  When the copy does
\* not fit and the batch is chained, the copy starts the new block, the
\* distance is measured there, and the appended relocations follow the
\* new block's first_reloc, behind the relocation of the jump, which stays
\* with the old block.
C19_EmitBatchCopiesAndShifts ==
  (call.op = "EmitBatch" /\ pc # "Aborted") =>
    LET other == call.arg
        size == other.dw * 4
        at == WrittenAt(size)
        cb == cmd_buffer
        block == cb.bbo[cb.batch_start]
        n == Len(other.relocs)
        kept == Len(cb.batch_relocs) - n
        old == cb.bbo[call.pre.batch_start]
    IN  /\ block.data[Len(block.data)].off = at
        /\ block.data[Len(block.data)].op = "BATCH"
        /\ block.data[Len(block.data)].dw = other.dw
        /\ cb.batch_next = at + size
        /\ cb.batch_next <= cb.batch_end
        /\ kept >= block.first_reloc
        /\ \A i \in 1 .. n :
             cb.batch_relocs[kept + i] =
               [other.relocs[i] EXCEPT !.offset = @ + at]
        /\ IF Extended(size)
           THEN /\ cb.batch_start # call.pre.batch_start
                /\ block.prev_batch_bo = call.pre.batch_start
                /\ kept = block.first_reloc
                /\ kept = call.pre.relocs - call.pre.surface_relocs + 1
                /\ cb.batch_relocs[kept].bo = cb.batch_start
                /\ old.first_reloc + old.num_relocs = kept
           ELSE /\ cb.batch_start = call.pre.batch_start
                /\ kept = call.pre.relocs - call.pre.surface_relocs

\* a copy with two relocations that did not fit behind a cursor that was
\* not at the start of its block, and so went to the start of a new block
C19_Witness ==
  /\ call.op = "EmitBatch"
  /\ pc = "Recording"
  /\ Len(call.arg.relocs) = 2
  /\ Extended(call.arg.dw * 4)
  /\ call.pre.batch_next > 0
  /\ cmd_buffer.batch_next = call.arg.dw * 4

\* the primary chain is the chain before the call and one new block, the
\* current one, linked to the block that was current: the batch was
\* extended
ChainExtended ==
  /\ PrimaryChain(cmd_buffer) =
        Append(call.pre.primary_nodes, cmd_buffer.batch_start)
  /\ cmd_buffer.batch_start \notin Range(call.pre.primary_nodes)
  /\ cmd_buffer.bbo[cmd_buffer.batch_start].prev_batch_bo =
        call.pre.batch_start

\* C20: anv_batch_emit_dwords extends the batch, when the dwords do not
\* fit before end, before it reads the pointer it returns: the pointer is
\* the cursor as the extension left it (the start of the new block), or
\* the cursor the call found when nothing was extended.  When it returns,
\* the cursor is the pointer plus the size, the pointer is not before
\* start and the cursor not behind end; a size that does not fit after the
\* extension either fails the assertion and the call does not return.
C20_EmitExtendsThenPoints ==
  call.op \in {"BatchEmit", "BatchEmitLarge"} =>
    LET size == call.arg * 4
        cb == cmd_buffer
        last == cb.g_log[Len(cb.g_log)]
    IN  IF pc = "Aborted"
        THEN /\ cb.abort = "assert(batch->next <= batch->end)"
             /\ Extended(size)
             /\ size > BATCH_SIZE - GEN8_MI_BATCH_BUFFER_START_length * 4
        ELSE /\ last.bbo = cb.batch_start
             /\ last.ins.off = WrittenAt(size)
             /\ last.ins.dw = call.arg
             /\ cb.batch_next = last.ins.off + size
             /\ 0 <= last.ins.off
             /\ cb.batch_next <= cb.batch_end
             /\ size <= BATCH_SIZE - GEN8_MI_BATCH_BUFFER_START_length * 4
             /\ IF Extended(size)
                THEN ChainExtended
                ELSE /\ cb.batch_start = call.pre.batch_start
                     /\ PrimaryChain(cb) = call.pre.primary_nodes

\* an emit that did not fit behind a cursor in the middle of its block and
\* got the start of a new block
C20_Witness ==
  /\ call.op = "BatchEmit"
  /\ pc = "Recording"
  /\ Extended(call.arg * 4)
  /\ call.pre.batch_next > 0
  /\ cmd_buffer.batch_next = call.arg * 4
  /\ cmd_buffer.batch_start # call.pre.batch_start

\* ---------------------------------------------------------------------
\* anv_batch_bo_create failing while the batch is extended
\* ---------------------------------------------------------------------

\* one anv_batch_emit / anv_batch_emitn at a time when anv_batch_bo_create
\* would fail (anv_device_alloc or anv_bo_pool_alloc has no memory)
BatchEmitFails ==
  /\ pc = "Recording"
  /\ \E k \in EmitKinds :
       Returns(anv_batch_emit([Enter(cmd_buffer) EXCEPT !.alloc_fails = TRUE],
                 InstrN("EMIT", k[1],
                        IF k[2] = NULL THEN <<>> ELSE << <<1, k[2], 0>> >>)),
               "BatchEmitFails", k[1], "Recording", 1)
  /\ UNCHANGED <<bo_offset, bo_index>>

NextFail ==
  Create \/ Begin \/ BatchEmit \/ BatchEmitFails \/ End \/ Reset

SpecFail == InitEmit /\ [][NextFail]_vars

\* every instruction of a block lies inside the block
WithinBlock(b) ==
  \A i \in 1 .. Len(cmd_buffer.bbo[b].data) :
     LET ins == cmd_buffer.bbo[b].data[i]
     IN  0 <= ins.off /\ ins.off + ins.dw * 4 <= BATCH_SIZE

\* C21: when the emit has to extend the batch and the new batch bo cannot
\* be allocated, the call returns to its caller with the failure, the
\* chain of batch bos and the cursor are as they were before the emit, and
\* nothing was written outside the current block.
C21_FailedExtensionIsSurfaced ==
  (call.op = "BatchEmitFails" /\ Extended(call.arg * 4)) =>
     /\ pc # "Aborted"
     /\ PrimaryChain(cmd_buffer) = call.pre.primary_nodes
     /\ cmd_buffer.batch_start = call.pre.batch_start
     /\ cmd_buffer.batch_next = call.pre.batch_next
     /\ WithinBlock(cmd_buffer.batch_start)

\* ---------------------------------------------------------------------
\* anv_reloc_list_init and anv_reloc_list_grow with anv_device_alloc
\* failing.  Here relocs and reloc_bos are two arrays, each NULL or a
\* sequence, and heap counts the arrays that are allocated and not freed.
\* ---------------------------------------------------------------------

\* a fresh array of `length` elements of reloc_bos whose first `count`
\* elements are copied from `from`
BoArray(length, from, count) ==
  [i \in 1 .. length |-> IF i <= count THEN from[i] ELSE 0 - 1]

\* the NULL pointer in place of an array
NoArray == <<>>

\* struct anv_reloc_list before anv_reloc_list_init
NoRelocList ==
  [num_relocs |-> 0, array_length |-> 0, relocs |-> NoArray, reloc_bos |-> NoArray]

\* what memcpy to a NULL destination may do
NullCopies == {"crash", "continue"}

\* anv_reloc_list_init; relocs_ok and bos_ok tell whether the first and the
\* second anv_device_alloc succeed.  The test after the second allocation
\* reads list->relocs again.
anv_reloc_list_init(list, relocs_ok, bos_ok) ==
  LET l1 == [list EXCEPT !.num_relocs = 0,
                         !.array_length = RelocArrayLength,
                         !.relocs = IF relocs_ok
                                    THEN RelocArray(RelocArrayLength, <<>>, 0)
                                    ELSE NoArray]
      l2 == [l1 EXCEPT !.reloc_bos = IF bos_ok
                                     THEN BoArray(RelocArrayLength, <<>>, 0)
                                     ELSE NoArray]
  IN  IF l1.relocs = NoArray
      THEN [list |-> l1, result |-> "VK_ERROR_OUT_OF_HOST_MEMORY",
            allocs |-> 0, frees |-> 0]
      ELSE IF l2.relocs = NoArray
      THEN [list |-> l2, result |-> "VK_ERROR_OUT_OF_HOST_MEMORY",
            allocs |-> 1, frees |-> 1]
      ELSE [list |-> l2, result |-> "VK_SUCCESS",
            allocs |-> IF bos_ok THEN 2 ELSE 1, frees |-> 0]

\* the list has to grow for num_additional_relocs more entries
MustGrow(list, num_additional_relocs) ==
  list.num_relocs + num_additional_relocs > list.array_length

\* anv_reloc_list_grow with its allocations; the test after the second
\* allocation reads new_relocs again, so that with new_reloc_bos NULL the
\* code goes on to memcpy into it (null_copy is what that does when there
\* are entries to copy), frees the old arrays and installs the new ones
GrowWithAllocs(list, num_additional_relocs, relocs_ok, bos_ok, null_copy) ==
  LET new_length == NewLength(list.array_length * 2,
                              list.num_relocs + num_additional_relocs)
      new_relocs == IF relocs_ok
                    THEN RelocArray(new_length, list.relocs, list.num_relocs)
                    ELSE NoArray
      new_reloc_bos == IF bos_ok
                       THEN BoArray(new_length, list.reloc_bos,
                                    list.num_relocs)
                       ELSE NoArray
      installed == [list EXCEPT !.relocs = new_relocs,
                                !.reloc_bos = new_reloc_bos]
  IN  IF ~MustGrow(list, num_additional_relocs)
      THEN [list |-> list, result |-> "VK_SUCCESS",
            allocs |-> 0, frees |-> 0]
      ELSE IF new_relocs = NoArray
      THEN [list |-> list, result |-> "VK_ERROR_OUT_OF_HOST_MEMORY",
            allocs |-> 0, frees |-> 0]
      ELSE IF new_reloc_bos = NoArray /\ list.num_relocs > 0
              /\ null_copy = "crash"
      THEN [list |-> list, result |-> "SIGSEGV", allocs |-> 1, frees |-> 0]
      ELSE [list |-> installed, result |-> "VK_SUCCESS",
            allocs |-> IF bos_ok THEN 2 ELSE 1, frees |-> 2]

\* anv_reloc_list_add's stores into the two arrays, after a grow that
\* succeeded
StoreReloc(list, offset, target_bo, delta) ==
  [list EXCEPT !.num_relocs = @ + 1,
               !.reloc_bos[list.num_relocs + 1] = target_bo,
               !.relocs[list.num_relocs + 1] =
                  Reloc(offset, target_bo, delta, bo_offset[target_bo])]

\* the list is in use: both arrays are there and no call crashed
Usable ==
  /\ lists.list.relocs # NoArray
  /\ lists.list.reloc_bos # NoArray
  /\ lists.result # "SIGSEGV"

\* a list not yet initialised
InitAllocs ==
  /\ pc = "Initial"
  /\ cmd_buffer = NoCmdBuffer
  /\ bo_offset = [b \in Bos |-> 0]
  /\ bo_index = [b \in Bos |-> 0]
  /\ call = [op |-> "", arg |-> 0, pre |-> Pre(NoCmdBuffer), prev |-> ""]
  /\ mutex = NULL
  /\ thread = <<>>
  /\ PipelineLayouts = CreatedPipelineLayouts
  /\ vector = NoVector
  /\ lists = [list |-> NoRelocList, heap |-> 0, op |-> "", result |-> "",
              needed |-> FALSE, failed |-> FALSE,
              pre_list |-> NoRelocList, pre_heap |-> 0]

\* the state after a call on the list that gave r
AllocReturns(r, op, needed, failed) ==
  /\ lists' = [list |-> r.list, heap |-> lists.heap + r.allocs - r.frees,
               op |-> op, result |-> r.result,
               needed |-> needed, failed |-> failed,
               pre_list |-> lists.list, pre_heap |-> lists.heap]
  /\ UNCHANGED <<pc, cmd_buffer, bo_offset, bo_index, call, mutex, thread,
                 PipelineLayouts, vector>>

\* anv_reloc_list_init(list, device)
AllocInit ==
  /\ lists.op = ""
  /\ \E relocs_ok, bos_ok \in BOOLEAN :
       AllocReturns(anv_reloc_list_init(lists.list, relocs_ok, bos_ok),
                    "init", TRUE, ~relocs_ok \/ ~bos_ok)

\* anv_reloc_list_grow(list, device, num_additional_relocs), by
\* anv_reloc_list_add or anv_reloc_list_append
AllocGrow ==
  /\ Usable
  /\ \E n \in 1 .. MaxOtherRelocs, relocs_ok, bos_ok \in BOOLEAN,
        null_copy \in NullCopies :
       /\ lists.list.num_relocs + n <= MaxRelocs
       /\ AllocReturns(GrowWithAllocs(lists.list, n, relocs_ok, bos_ok,
                                      null_copy),
                       "grow", MustGrow(lists.list, n),
                       ~relocs_ok \/ ~bos_ok)

\* anv_reloc_list_add with memory for the arrays
AllocAdd ==
  /\ Usable
  /\ lists.list.num_relocs < MaxRelocs
  /\ \E a \in RelocArgs :
       LET grown == GrowWithAllocs(lists.list, 1, TRUE, TRUE, "continue")
       IN  AllocReturns([grown EXCEPT
                           !.list = StoreReloc(@, a[1], a[2], a[3])],
                        "add", MustGrow(lists.list, 1), FALSE)

NextAllocs == AllocInit \/ AllocGrow \/ AllocAdd

SpecAllocs == InitAllocs /\ [][NextAllocs]_vars

\* C22: anv_reloc_list_init and anv_reloc_list_grow return
\* VK_ERROR_OUT_OF_HOST_MEMORY whenever they need the two arrays and one
\* of them cannot be allocated; then no array allocated by the call is
\* left allocated or installed in the list, and the list's arrays and
\* entries are as before.
C22_AllocationFailureIsReported ==
  (lists.op \in {"init", "grow"} /\ lists.needed /\ lists.failed) =>
     /\ lists.result = "VK_ERROR_OUT_OF_HOST_MEMORY"
     /\ lists.heap = lists.pre_heap
     /\ lists.list.relocs = lists.pre_list.relocs
     /\ lists.list.reloc_bos = lists.pre_list.reloc_bos
     /\ lists.list.num_relocs = lists.pre_list.num_relocs

\* ---------------------------------------------------------------------
\* a relocation list over the resets of its command buffer
\* ---------------------------------------------------------------------

\* anv_ResetCommandBuffer on the list: relocs.num_relocs = 0, the arrays
\* stay
RelocListReset(list) == [list EXCEPT !.num_relocs = 0]

RelocReset ==
  /\ lists.list.num_relocs > 0
  /\ lists' = [lists EXCEPT !.list = RelocListReset(@),
                            !.op = "reset", !.args = <<>>,
                            !.pre_list = lists.list,
                            !.pre_other = lists.other]
  /\ UNCHANGED <<pc, cmd_buffer, bo_offset, bo_index, call, mutex, thread,
                 PipelineLayouts, vector>>

NextReset == RelocAdd \/ RelocAddOther \/ RelocAppend \/ RelocReset

SpecReset == InitRelocs /\ [][NextReset]_vars

\* C23: over adds, appends and resets the arrays of a relocation list are
\* never replaced by shorter ones, and the list never holds more entries
\* than its arrays have elements.
C23_StorageOnlyGrows ==
  /\ Len(lists.list.relocs) >= Len(lists.pre_list.relocs)
  /\ lists.list.num_relocs <= Len(lists.list.relocs)

\* ---------------------------------------------------------------------
\* relocation entries and the blocks that own them
\* ---------------------------------------------------------------------

\* the nodes of a chain, oldest first, cut the list into their slices:
\* each slice starts where the one before ends, and the last ends the list
RECURSIVE SlicesFrom(_, _, _, _)
SlicesFrom(bbo, nodes, list, from) ==
  IF nodes = <<>> THEN from = Len(list)
  ELSE /\ bbo[Head(nodes)].first_reloc = from
       /\ SlicesFrom(bbo, Tail(nodes), list, from + bbo[Head(nodes)].num_relocs)

\* every entry of the slice of node b points into the bytes of b
SliceInside(bbo, b, list) ==
  \A i \in bbo[b].first_reloc + 1 .. bbo[b].first_reloc + bbo[b].num_relocs :
     0 <= list[i].offset /\ list[i].offset < bbo[b].length

\* C24: once anv_EndCommandBuffer returned, every relocation entry of the
\* batch's list and of the surface-state list belongs to the slice of one
\* block of its chain, and its offset is at least 0 and less than that
\* block's length; this includes the entries of the jumps between blocks
\* and the entries a flush left in a surface-state block it gave up.
C24_RelocsPointIntoOwner ==
  pc = "Executable" =>
    /\ SlicesFrom(cmd_buffer.bbo, PrimaryChain(cmd_buffer),
                  cmd_buffer.batch_relocs, 0)
    /\ SlicesFrom(cmd_buffer.bbo, SurfaceChain(cmd_buffer),
                  cmd_buffer.surface_relocs, 0)
    /\ \A b \in Range(PrimaryChain(cmd_buffer)) :
          SliceInside(cmd_buffer.bbo, b, cmd_buffer.batch_relocs)
    /\ \A b \in Range(SurfaceChain(cmd_buffer)) :
          SliceInside(cmd_buffer.bbo, b, cmd_buffer.surface_relocs)

\* an ended command buffer with a jump between two batch blocks and with
\* entries in a surface-state block that a flush gave up
C24_Witness ==
  /\ pc = "Executable"
  /\ Len(PrimaryChain(cmd_buffer)) > 1
  /\ Len(SurfaceChain(cmd_buffer)) > 1
  /\ cmd_buffer.bbo[SurfaceChain(cmd_buffer)[1]].num_relocs > 0
  /\ cmd_buffer.bbo[SurfaceChain(cmd_buffer)[2]].num_relocs > 0
  /\ \E i \in 1 .. Len(cmd_buffer.batch_relocs) :
        cmd_buffer.batch_relocs[i].bo \in Range(PrimaryChain(cmd_buffer))

\* ---------------------------------------------------------------------
\* anv_cmd_buffer_alloc_surface_state, one call at a time
\* ---------------------------------------------------------------------

\* the <<size, alignment>> of the allocations: a binding table of one
\* entry and one of half a block, and a surface state
SurfaceAllocKinds == { <<4, 32>>, <<BATCH_SIZE \div 2, 32>>, <<64, 64>> }

\* ghost: the allocation just made, with the cursor before and after it
AllocRecord(before, after, size, alignment) ==
  [after EXCEPT !.g_states =
     Append(@, [kind |-> "alloc", size |-> size, alignment |-> alignment,
                st |-> after.st, node |-> before.surface_batch_bo,
                next_before |-> before.surface_next,
                next_after |-> after.surface_next])]

\* one anv_cmd_buffer_alloc_surface_state by any caller
SurfaceAlloc ==
  /\ pc = "Recording"
  /\ \E k \in SurfaceAllocKinds :
       Returns(AllocRecord(cmd_buffer,
                 anv_cmd_buffer_alloc_surface_state(cmd_buffer, k[1], k[2]),
                 k[1], k[2]),
               "SurfaceAlloc", k, "Recording", 1)
  /\ UNCHANGED <<bo_offset, bo_index>>

\* the allocation before this call failed
LastAllocFailed ==
  /\ call.op = "SurfaceAlloc"
  /\ ~cmd_buffer.g_states[Len(cmd_buffer.g_states)].st.map

\* anv_cmd_buffer_new_surface_state_bo, which the callers run after an
\* allocation that failed
SurfaceNewBo ==
  /\ pc = "Recording"
  /\ LastAllocFailed
  /\ Returns(anv_cmd_buffer_new_surface_state_bo(cmd_buffer),
             "SurfaceNewBo", 0, "Recording", 1)
  /\ UNCHANGED <<bo_offset, bo_index>>

NextSurface ==
  Create \/ Begin \/ SurfaceAlloc \/ SurfaceNewBo \/ End \/ Reset

SpecSurface == InitEmit /\ [][NextSurface]_vars

\* the allocations of this recording, in order
Allocs == cmd_buffer.g_states

\* C25: every anv_cmd_buffer_alloc_surface_state that succeeds returns an
\* offset of at least 1 that is a multiple of the alignment asked for, and
\* the size bytes from it lie inside the current surface-state block and
\* share no byte with any other allocation made in that block since the
\* block was started or the command buffer reset; one that fails returns
\* the zeroed anv_state and leaves surface_next as it was.
C25_SurfaceAllocsAreDisjoint ==
  (pc = "Recording" /\ call.op \in {"SurfaceAlloc", "SurfaceNewBo"}) =>
    \A i \in 1 .. Len(Allocs) :
       LET a == Allocs[i]
       IN  IF a.st.map
           THEN /\ a.st.offset >= 1
                /\ a.st.offset % a.alignment = 0
                /\ a.st.offset + a.size <= BATCH_SIZE
                /\ a.st.alloc_size = a.size
                /\ a.st.bbo = a.node
                /\ \A j \in 1 .. i - 1 :
                      LET e == Allocs[j]
                      IN  (e.st.map /\ e.node = a.node) =>
                             e.st.offset + e.size <= a.st.offset
           ELSE /\ a.st = NoState
                /\ a.next_after = a.next_before

\* allocations of different alignments in a second block, after an
\* allocation that did not fit into the first
C25_Witness ==
  /\ pc = "Recording"
  /\ call.op = "SurfaceAlloc"
  /\ \E i, j, k \in 1 .. Len(Allocs) :
        /\ i < j /\ j < k
        /\ ~Allocs[i].st.map
        /\ Allocs[j].st.map /\ Allocs[k].st.map
        /\ Allocs[j].node = Allocs[k].node
        /\ Allocs[j].node # Allocs[i].node
        /\ Allocs[j].alignment # Allocs[k].alignment
        /\ Allocs[j].st.offset + Allocs[j].size < Allocs[k].st.offset

\* ---------------------------------------------------------------------
\* anv_EndCommandBuffer on a command buffer that is already ended
\* ---------------------------------------------------------------------

\* anv_EndCommandBuffer called again with no anv_ResetCommandBuffer since
\* the last anv_EndCommandBuffer
EndAgain ==
  /\ pc = "Executable"
  /\ LET r == anv_EndCommandBuffer(Enter(cmd_buffer), bo_index)
     IN /\ Returns(r, "EndAgain", 0, "Executable", 1)
        /\ bo_index' = r.g_index
  /\ UNCHANGED bo_offset

NextEndAgain == Create \/ Begin \/ BatchEmit \/ End \/ EndAgain \/ Reset

SpecEndAgain == InitEmit /\ [][NextEndAgain]_vars

\* the MI_BATCH_BUFFER_END instructions in the blocks of the batch
Terminators ==
  {<<b, i>> \in BatchBos \X (1 .. 2 * BatchQwords) :
     /\ b \in Range(PrimaryChain(cmd_buffer))
     /\ i <= Len(cmd_buffer.bbo[b].data)
     /\ cmd_buffer.bbo[b].data[i].op = "MI_BATCH_BUFFER_END"}

\* C26: a second anv_EndCommandBuffer with no reset in between fails an
\* assertion; it emits no second MI_BATCH_BUFFER_END and does not build
\* the array of execbuf objects again.
C26_SecondEndIsRejected ==
  call.op = "EndAgain" =>
     /\ pc = "Aborted"
     /\ Cardinality(Terminators) = 1
     /\ Len(cmd_buffer.g_log) = call.pre.log

\* ---------------------------------------------------------------------
\* anv_CmdBindDescriptorSets at and beyond MAX_SETS
\* ---------------------------------------------------------------------

\* the <<firstSet, setCount>> of the calls: below MAX_SETS, up to MAX_SETS
\* exactly, and beyond
SetRanges ==
  { <<0, 1>>, <<0, 2>>, <<MAX_SETS - 2, 1>>, <<MAX_SETS - 2, 2>>,
    <<MAX_SETS - 1, 1>>, <<MAX_SETS - 1, 2>>, <<0, MAX_SETS>>,
    <<1, MAX_SETS>> }

\* anv_CmdBindDescriptorSets of setCount sets of the first set layout, for
\* the layout of MAX_SETS sets, each with the dynamic offset d
BindSetsAt ==
  /\ pc = "Recording"
  /\ \E k \in SetRanges, d \in {0, 256} :
       Returns(anv_CmdBindDescriptorSets(Enter(cmd_buffer), 4, k[1],
                                         [i \in 1 .. k[2] |-> 1],
                                         [i \in 1 .. k[2] |-> d]),
               "BindSetsAt", <<k[1], k[2], d>>, "Recording", 1)
  /\ UNCHANGED <<bo_offset, bo_index>>

NextBindSets == Create \/ Begin \/ BindSetsAt \/ End \/ Reset

SpecBindSets == InitEmit /\ [][NextBindSets]_vars

\* C27: anv_CmdBindDescriptorSets fails its assertion exactly when
\* firstSet + setCount is more than MAX_SETS, the maxBoundDescriptorSets of
\* the device; every other call is accepted, stores the sets at
\* descriptors[firstSet + i] and adds the stages of their set layouts to
\* descriptors_dirty.
C27_BindUpToMaxSets ==
  call.op = "BindSetsAt" =>
    LET firstSet == call.arg[1]
        setCount == call.arg[2]
    IN  IF firstSet + setCount > MAX_SETS
        THEN pc = "Aborted"
        ELSE /\ pc = "Recording"
             /\ \A i \in 0 .. setCount - 1 :
                   /\ cmd_buffer.descriptors[firstSet + i].set = 1
                   /\ cmd_buffer.descriptors[firstSet + i].dynamic_offsets[1]
                        = call.arg[3]
             /\ cmd_buffer.descriptors_dirty =
                  call.pre.descriptors_dirty
                    \cup DescriptorSetLayouts[1].shader_stages

\* ---------------------------------------------------------------------
\* anv_QueueSubmit of ended command buffers
\* ---------------------------------------------------------------------

\* where the kernel places a bo that every command buffer lists during the
\* execbufs of one call, <<bo, address>>
KernelMoves == { <<DYNAMIC_STATE_BO, 0>>, <<DYNAMIC_STATE_BO, 1>> }

\* the pCmdBuffers of the calls, as indexes of the two command buffers
SubmitLists == { <<1>>, <<2>>, <<1, 2>>, <<2, 1>> }

\* anv_gem_execbuffer that succeeds: the kernel writes the address of every
\* object into its offset field
anv_gem_execbuffer(objects, move) ==
  [i \in 1 .. Len(objects) |->
     IF objects[i].handle = move[1]
     THEN [objects[i] EXCEPT !.offset = move[2]] ELSE objects[i]]

\* the loop over bo_count that copies exec2_objects[i].offset to
\* exec2_bos[i]->offset
RECURSIVE CopyOffsets(_, _, _)
CopyOffsets(offsets, cb, i) ==
  IF i > cb.bo_count THEN offsets
  ELSE CopyOffsets([offsets EXCEPT ![cb.exec2_bos[i]] =
                                      cb.exec2_objects[i].offset],
                   cb, i + 1)

\* st = [cbs, bo_offset, n, log, result]: the command buffers, bo->offset,
\* the execbufs called so far and, ghost, those that succeeded.  fail_at
\* is the number of the execbuf that fails (0: none), moves the kernel's
\* placements by execbuf.
Submitted(st, t, moves) ==
  [st EXCEPT !.n = @ + 1,
             !.cbs[t].exec2_objects = anv_gem_execbuffer(@, moves[st.n + 1]),
             !.log = Append(@, [what |-> "cmd_buffer", t |-> t])]

Fenced(st) ==
  [st EXCEPT !.n = @ + 1, !.log = Append(@, [what |-> "fence", t |-> 0])]

Updated(st, t) ==
  [st EXCEPT !.bo_offset = CopyOffsets(@, st.cbs[t], 1),
             !.log = Append(@, [what |-> "offsets", t |-> t,
                                bo_offset |-> CopyOffsets(st.bo_offset,
                                                          st.cbs[t], 1)])]

Failed(st) == [st EXCEPT !.n = @ + 1, !.result = "VK_ERROR_UNKNOWN"]

\* the loop of anv_QueueSubmit from command buffer i on, on a device with
\* hardware (no_hw and dump_aub not set)
RECURSIVE SubmitFrom(_, _, _, _, _, _)
SubmitFrom(st, cmds, i, fence, fail_at, moves) ==
  IF i > Len(cmds) THEN st
  ELSE IF fail_at = st.n + 1 THEN Failed(st)
  ELSE LET s1 == Submitted(st, cmds[i], moves)
       IN  IF fence /\ fail_at = s1.n + 1 THEN Failed(s1)
           ELSE SubmitFrom(Updated(IF fence THEN Fenced(s1) ELSE s1, cmds[i]),
                           cmds, i + 1, fence, fail_at, moves)

\* anv_QueueSubmit(queue, cmdBufferCount, pCmdBuffers, fence)
anv_QueueSubmit(cbs, offsets, cmds, fence, fail_at, moves) ==
  SubmitFrom([cbs |-> cbs, bo_offset |-> offsets, n |-> 0, log |-> <<>>,
              result |-> "VK_SUCCESS"],
             cmds, 1, fence, fail_at, moves)

\* anv_EndCommandBuffer of one of two recorded command buffers of the
\* device
EndOf(t) ==
  /\ thread[t].pc = "Recorded"
  /\ LET r == anv_EndCommandBuffer(thread[t].cb, bo_index)
     IN /\ thread' = [thread EXCEPT
                        ![t].cb = [r EXCEPT !.g_index = <<>>],
                        ![t].pc = IF r.abort # "" THEN "Aborted"
                                  ELSE "Returned"]
        /\ bo_index' = r.g_index
  /\ UNCHANGED <<pc, cmd_buffer, bo_offset, call, mutex, PipelineLayouts,
                 lists, vector>>

\* anv_QueueSubmit of ended command buffers; the kernel fails the execbuf
\* number fail_at, if any, and places the bo where it chooses in the
\* others
QueueSubmit ==
  /\ \A t \in Threads : thread[t].pc = "Returned"
  /\ \E cmds \in SubmitLists, fence \in BOOLEAN, fail_at \in 0 .. 4,
        m \in KernelMoves :
        LET r == anv_QueueSubmit([t \in Threads |-> thread[t].cb], bo_offset,
                                 cmds, fence, fail_at, <<m, m, m, m>>)
        IN  /\ fail_at <= Len(cmds) * (IF fence THEN 2 ELSE 1)
            /\ thread' = [t \in Threads |->
                            [thread[t] EXCEPT !.cb = r.cbs[t]]]
            /\ bo_offset' = r.bo_offset
            /\ call' = [op |-> "QueueSubmit",
                        arg |-> [cmds |-> cmds, fence |-> fence,
                                 fail_at |-> fail_at],
                        pre |-> [thread |-> thread, bo_offset |-> bo_offset],
                        prev |-> [result |-> r.result, log |-> r.log]]
  /\ UNCHANGED <<pc, cmd_buffer, bo_index, mutex, PipelineLayouts, lists, vector>>

InitSubmit == InitEnd

NextSubmit == (\E t \in Threads : EndOf(t)) \/ QueueSubmit

SpecSubmit == InitSubmit /\ [][NextSubmit]_vars

\* the position in pCmdBuffers of the command buffer whose execbuf failed
\* in the call just made, 0 if none did
FailedCmd ==
  LET per == IF call.arg.fence THEN 2 ELSE 1
  IN IF call.arg.fail_at # 0 /\ (call.arg.fail_at - 1) % per = 0
     THEN (call.arg.fail_at - 1) \div per + 1 ELSE 0

\* bo->offset of every bo right after the iteration of the loop for
\* command buffer t
AfterSubmission(t) ==
  IF \E j \in 1 .. Len(call.prev.log) :
       call.prev.log[j].what = "offsets" /\ call.prev.log[j].t = t
  THEN (CHOOSE e \in {call.prev.log[j] : j \in 1 .. Len(call.prev.log)} :
          e.what = "offsets" /\ e.t = t).bo_offset
  ELSE bo_offset

\* bo->offset of every bo when the iteration at position k starts
BeforeSubmission(k) ==
  IF k = 1 THEN call.pre.bo_offset
  ELSE AfterSubmission(call.arg.cmds[k - 1])

FailureLeavesAllUnchanged ==
  FailedCmd # 0 =>
    LET k == FailedCmd
        t == call.arg.cmds[k]
        log == call.prev.log
    IN  /\ call.prev.result # "VK_SUCCESS"
        /\ \A j \in 1 .. Len(log) :
             /\ log[j].what = "cmd_buffer"
                  => \E i \in 1 .. k - 1 : call.arg.cmds[i] = log[j].t
             /\ log[j].what = "fence" => call.arg.fence
        /\ Cardinality({j \in 1 .. Len(log) : log[j].what = "fence"})
             = (IF call.arg.fence THEN k - 1 ELSE 0)
        /\ thread[t].cb.execbuf = call.pre.thread[t].cb.execbuf
        /\ thread[t].cb.exec2_objects = call.pre.thread[t].cb.exec2_objects
        /\ thread[t].cb.exec2_bos = call.pre.thread[t].cb.exec2_bos
        /\ bo_offset = BeforeSubmission(k)

SubmissionUpdatesOffsets ==
  \A j \in 1 .. Len(call.prev.log) :
    call.prev.log[j].what = "cmd_buffer" =>
      LET t == call.prev.log[j].t
      IN \A i \in 1 .. thread[t].cb.bo_count :
           AfterSubmission(t)[thread[t].cb.exec2_bos[i]]
             = thread[t].cb.exec2_objects[i].offset

\* C28: when the execbuf of a command buffer fails, anv_QueueSubmit returns
\* an error at once, having submitted neither the fence nor a later command
\* buffer, with the execbuf, the object array and the bo offsets of that
\* command buffer as they were; after an execbuf of a command buffer that
\* succeeded, the offset of each bo of its array is the offset the kernel
\* wrote into the object of that bo.
C28_SubmitFailsCleanly ==
  call.op = "QueueSubmit" =>
    FailureLeavesAllUnchanged /\ SubmissionUpdatesOffsets

\* ---------------------------------------------------------------------
\* anv_WaitForFences and its 64-bit timeout
\* ---------------------------------------------------------------------

\* A 64-bit word is four limbs of 16 bits, the most significant first.
Limb == 2 ^ 16

UINT64_MAX == <<Limb - 1, Limb - 1, Limb - 1, Limb - 1>>

INT64_MAX == <<Limb \div 2 - 1, Limb - 1, Limb - 1, Limb - 1>>

\* a > b for two uint64_t
RECURSIVE GreaterFrom(_, _, _)
GreaterFrom(a, b, i) ==
  IF i > Len(a) THEN FALSE
  ELSE IF a[i] # b[i] THEN a[i] > b[i]
  ELSE GreaterFrom(a, b, i + 1)

Greater(a, b) == GreaterFrom(a, b, 1)

\* 2^64 - a for a uint64_t a that is not 0: the complement of every limb,
\* plus one, with the carries
TwosComplement(a) ==
  LET s4 == Limb - a[4]
      s3 == Limb - 1 - a[3] + s4 \div Limb
      s2 == Limb - 1 - a[2] + s3 \div Limb
      s1 == Limb - 1 - a[1] + s2 \div Limb
  IN <<s1 % Limb, s2 % Limb, s3 % Limb, s4 % Limb>>

\* int64_t t = timeout: the value of the same 64 bits read as a signed
\* number, as sign and magnitude
ToInt64(u) ==
  IF Greater(u, INT64_MAX)
  THEN [negative |-> TRUE, magnitude |-> TwosComplement(u)]
  ELSE [negative |-> FALSE, magnitude |-> u]

\* the timeouts of the calls: 0, 1, 2^16, INT64_MAX - 1, INT64_MAX,
\* INT64_MAX + 1, 2^64 - 2^16 and UINT64_MAX
Timeouts ==
  { <<0, 0, 0, 0>>, <<0, 0, 0, 1>>, <<0, 0, 1, 0>>,
    <<Limb \div 2 - 1, Limb - 1, Limb - 1, Limb - 2>>, INT64_MAX,
    <<Limb \div 2, 0, 0, 0>>,
    <<Limb - 1, Limb - 1, Limb - 1, 0>>, UINT64_MAX }

\* what the kernel does with one wait: the fence is signaled in time, the
\* wait times out (ret -1, errno ETIME), the ioctl fails otherwise
WaitOutcomes == {"signaled", "ETIME", "EIO"}

\* the outcomes of the waits of one call, one for each fence
FenceWaits ==
  {<<a>> : a \in WaitOutcomes} \cup
  {<<a, b>> : a \in WaitOutcomes, b \in WaitOutcomes}

\* anv_gem_wait(device, gem_handle, &t): the kernel leaves in t the time
\* that is left, here all of it or, of a wait that took time, none
anv_gem_wait(t, takes_time) ==
  IF takes_time /\ ~t.negative
  THEN [negative |-> FALSE, magnitude |-> <<0, 0, 0, 0>>] ELSE t

\* the loop over the fences; passed is, ghost, the values of t the waits
\* were called with
RECURSIVE WaitLoop(_, _, _, _, _, _)
WaitLoop(t, waits, i, takes_time, passed, error) ==
  IF i > Len(waits) THEN [result |-> "VK_SUCCESS", passed |-> passed]
  ELSE IF waits[i] = "ETIME"
  THEN [result |-> "VK_TIMEOUT", passed |-> Append(passed, t)]
  ELSE IF waits[i] # "signaled"
  THEN [result |-> error, passed |-> Append(passed, t)]
  ELSE WaitLoop(anv_gem_wait(t, takes_time), waits, i + 1, takes_time,
                Append(passed, t), error)

\* anv_WaitForFences of device.c
anv_WaitForFences(timeout, waits, takes_time) ==
  WaitLoop(ToInt64(timeout), waits, 1, takes_time, <<>>, "VK_ERROR_UNKNOWN")

\* anv_WaitForFences of anv_device.c
anv_device_WaitForFences(timeout, waits, takes_time) ==
  LET clamped == IF Greater(timeout, INT64_MAX) THEN INT64_MAX ELSE timeout
  IN WaitLoop(ToInt64(clamped), waits, 1, takes_time, <<>>,
              "VK_ERROR_OUT_OF_DEVICE_MEMORY")

WaitForFences ==
  /\ \E timeout \in Timeouts, waits \in FenceWaits, takes_time \in BOOLEAN :
        call' = [op |-> "WaitForFences",
                 arg |-> [timeout |-> timeout, waits |-> waits],
                 pre |-> Pre(cmd_buffer),
                 prev |-> anv_WaitForFences(timeout, waits, takes_time)]
  /\ UNCHANGED <<pc, cmd_buffer, bo_offset, bo_index, mutex, thread,
                 PipelineLayouts, lists, vector>>

WaitForFencesNewer ==
  /\ \E timeout \in Timeouts, waits \in FenceWaits, takes_time \in BOOLEAN :
        call' = [op |-> "WaitForFencesNewer",
                 arg |-> [timeout |-> timeout, waits |-> waits],
                 pre |-> Pre(cmd_buffer),
                 prev |-> anv_device_WaitForFences(timeout, waits,
                                                   takes_time)]
  /\ UNCHANGED <<pc, cmd_buffer, bo_offset, bo_index, mutex, thread,
                 PipelineLayouts, lists, vector>>

NextWait == WaitForFences \/ WaitForFencesNewer

SpecWait == InitEmit /\ [][NextWait]_vars

WaitCalls == {"WaitForFences", "WaitForFencesNewer"}

\* the wait that times out, if any, is the last of the call
TimedOut ==
  /\ call.prev.passed # <<>>
  /\ call.arg.waits[Len(call.prev.passed)] = "ETIME"

TimeoutIsDistinct == TimedOut <=> call.prev.result = "VK_TIMEOUT"

FirstWaitIsClamped ==
  call.prev.passed[1] =
    [negative |-> FALSE,
     magnitude |-> IF Greater(call.arg.timeout, INT64_MAX) THEN INT64_MAX
                   ELSE call.arg.timeout]

NeverNegative ==
  \A i \in 1 .. Len(call.prev.passed) : ~call.prev.passed[i].negative

\* C29: anv_WaitForFences returns VK_TIMEOUT, and no error, exactly when a
\* kernel wait times out; the wait of the first fence is called with the
\* caller's timeout, or with INT64_MAX when that is greater, and no wait is
\* called with a negative value.
C29_TimeoutIsClamped ==
  call.op \in WaitCalls =>
    TimeoutIsDistinct /\ FirstWaitIsClamped /\ NeverNegative

\* ---------------------------------------------------------------------
\* the life of the batch bos of a command buffer
\* ---------------------------------------------------------------------

\* a variant of the loops below that leaves the first node of the chain
DestroyAll_but_first(cb, b) == DestroyAllButFirst(cb, b)

\* the two loops of anv_DestroyCommandBuffer that destroy every node of a
\* chain, from the newest
RECURSIVE DestroyAll(_, _)
DestroyAll(cb, b) ==
  IF b = NULL THEN cb
  ELSE DestroyAll(anv_batch_bo_destroy(cb, b), cb.bbo[b].prev_batch_bo)

\* anv_DestroyCommandBuffer: the chains, the relocation lists, the object
\* arrays; the fields of the freed cmd_buffer keep what they held
anv_DestroyCommandBuffer(cb) ==
  LET Primary(c) == [DestroyAll(c, c.last_batch_bo) EXCEPT
                       !.batch_relocs = <<>>]
      Surface(c) == [DestroyAll(c, c.surface_batch_bo) EXCEPT
                       !.surface_relocs = <<>>,
                       !.exec2_objects = <<>>, !.exec2_bos = <<>>]
  IN Surface(Primary(cb))

Destroy ==
  /\ pc \in {"Created", "Recording", "Executable"}
  /\ Returns(anv_DestroyCommandBuffer(Enter(cmd_buffer)), "Destroy", 0,
             "Destroyed", 0)
  /\ UNCHANGED <<bo_offset, bo_index>>

NextLife ==
  Create \/ Begin \/ BatchEmit \/ SurfaceAlloc \/ SurfaceNewBo \/ End
  \/ Reset \/ Destroy

\* calls enough to grow both chains and reset
MaxLifeCalls == 6

InitLife == InitWith(MaxLifeCalls)

SpecLife == InitLife /\ [][NextLife]_vars

Nodes(chain) == {chain[i] : i \in 1 .. Len(chain)}

\* the nodes the call just made released
Freed == {cmd_buffer.g_freed[i].bbo : i \in 1 .. Len(cmd_buffer.g_freed)}

\* every node that is allocated is a node of exactly one of the two chains,
\* and every node of a chain is allocated
AllocatedAreChained ==
  LET p == PrimaryChain(cmd_buffer)
      s == SurfaceChain(cmd_buffer)
  IN /\ Nodes(p) \cup Nodes(s) = BatchBos \ FreeBbos(cmd_buffer)
     /\ Nodes(p) \cap Nodes(s) = {}
     /\ Cardinality(Nodes(p)) = Len(p)
     /\ Cardinality(Nodes(s)) = Len(s)

\* each release of the call is of a node that was allocated then, and of a
\* different node
ReleasedOnce ==
  /\ \A i \in 1 .. Len(cmd_buffer.g_freed) : cmd_buffer.g_freed[i].live
  /\ Cardinality(Freed) = Len(cmd_buffer.g_freed)

\* C30: every batch bo allocated for a command buffer is a node of one of
\* its two chains until it is released; anv_ResetCommandBuffer releases
\* each node after the first of either chain once and keeps the two first
\* nodes, anv_DestroyCommandBuffer releases every node of both chains once
\* and leaves none allocated, no other call releases a node, and no node a
\* call released is a node of a chain afterwards.
C30_NodesReleasedOnce ==
  /\ pc \notin {"Initial", "Destroyed"} => AllocatedAreChained
  /\ ReleasedOnce
  /\ call.op = "Reset" =>
       /\ Freed = (Nodes(Tail(call.pre.primary_nodes))
                   \cup Nodes(Tail(call.pre.surface_nodes)))
       /\ PrimaryChain(cmd_buffer) = <<call.pre.primary_nodes[1]>>
       /\ SurfaceChain(cmd_buffer) = <<call.pre.surface_nodes[1]>>
  /\ call.op = "Destroy" =>
       /\ Freed = Nodes(call.pre.primary_nodes)
                    \cup Nodes(call.pre.surface_nodes)
       /\ FreeBbos(cmd_buffer) = BatchBos
  /\ call.op \notin {"Reset", "Destroy"} => Freed = {}
  /\ pc # "Destroyed" =>
       Freed \cap (Nodes(PrimaryChain(cmd_buffer))
                   \cup Nodes(SurfaceChain(cmd_buffer))) = {}

\* a command buffer with both chains grown was destroyed
C30_Witness ==
  /\ call.op = "Destroy"
  /\ Len(call.pre.primary_nodes) > 1
  /\ Len(call.pre.surface_nodes) > 1
  /\ Cardinality(Freed) = Len(call.pre.primary_nodes)
                            + Len(call.pre.surface_nodes)

\* ---------------------------------------------------------------------
\* anv_EndCommandBuffer at every position of the batch cursor
\* ---------------------------------------------------------------------

\* one anv_batch_emitn of any number of dwords that fits a block beside the
\* reserve for the jump
BatchEmitAny ==
  /\ pc = "Recording"
  /\ \E n \in 1 .. BATCH_SIZE \div 4 - GEN8_MI_BATCH_BUFFER_START_length :
       Returns(anv_batch_emit(Enter(cmd_buffer), InstrN("EMIT", n, <<>>)),
               "BatchEmitAny", n, "Recording", 1)
  /\ UNCHANGED <<bo_offset, bo_index>>

\* an emit and the end, or the end and a reset
MaxCursorCalls == 2

InitCursor == InitWith(MaxCursorCalls)

NextCursor == Create \/ Begin \/ BatchEmitAny \/ End \/ Reset

SpecCursor == InitCursor /\ [][NextCursor]_vars

\* the last node of the primary chain
TailNode == cmd_buffer.bbo[cmd_buffer.last_batch_bo]

\* C31: after anv_EndCommandBuffer, wherever the cursor stood when it was
\* called, the last batch bo of the primary chain holds the
\* MI_BATCH_BUFFER_END and its length is a multiple of 8 bytes.
C31_EndIsInTailAndEven ==
  call.op = "End" /\ pc = "Executable" =>
    /\ \E i \in 1 .. Len(TailNode.data) :
         TailNode.data[i].op = "MI_BATCH_BUFFER_END"
    /\ TailNode.length % 8 = 0

\* ---------------------------------------------------------------------
\* binding tables and the surface state base address
\* ---------------------------------------------------------------------

\* the surface-state block the most recent STATE_BASE_ADDRESS of the log
\* names, NULL if there is none
SurfaceBase(log) ==
  LET i == LastPointer(log, "STATE_BASE_ADDRESS", 0)
  IN IF i = 0 THEN NULL ELSE log[i].ins.addrs[1][2]

\* the block in which the table of the most recent pointer instruction op
\* with sub-opcode sub was allocated, NULL if there is no such instruction
TableBlock(log, op, sub) ==
  LET i == LastPointer(log, op, sub)
  IN IF i = 0 THEN NULL ELSE log[i].ins.ref

DrawTablesInBase ==
  \A s \in Pipelines[cmd_buffer.pipeline].active_stages :
     StageHasSurfaces(cmd_buffer, s) =>
       TableBlock(cmd_buffer.g_log, "3DSTATE_BINDING_TABLE_POINTERS",
                  binding_table_opcodes[s])
         = SurfaceBase(cmd_buffer.g_log)

DispatchTableInBase ==
  StageHasSurfaces(cmd_buffer, VK_SHADER_STAGE_COMPUTE) =>
    TableBlock(cmd_buffer.g_log, "MEDIA_INTERFACE_DESCRIPTOR_LOAD", 0)
      = SurfaceBase(cmd_buffer.g_log)

\* C32: when a draw or a dispatch is emitted, the most recent binding-table
\* pointer of every stage it uses points at a table in the surface-state
\* block that the most recent STATE_BASE_ADDRESS names, whichever of the
\* two flushes took that block.
C32_TablesFollowBaseAddress ==
  /\ call.op \in DrawOps /\ Returned => DrawTablesInBase
  /\ call.op \in DispatchOps /\ Returned => DispatchTableInBase

\* ---------------------------------------------------------------------
\* the relocation slices of the nodes of a chain
\* ---------------------------------------------------------------------

\* the positions in its chain's relocation list that node b owns
SliceOf(b) ==
  cmd_buffer.bbo[b].first_reloc + 1 ..
    cmd_buffer.bbo[b].first_reloc + cmd_buffer.bbo[b].num_relocs

\* the slices of the nodes of a chain (oldest node first) are disjoint, lie
\* in the order of the chain and together are the positions of the list
SlicesPartition(chain, list) ==
  /\ \A i \in 1 .. Len(chain) : \A j \in i + 1 .. Len(chain) :
        /\ SliceOf(chain[i]) \cap SliceOf(chain[j]) = {}
        /\ cmd_buffer.bbo[chain[i]].first_reloc
             + cmd_buffer.bbo[chain[i]].num_relocs
             <= cmd_buffer.bbo[chain[j]].first_reloc
  /\ \A i \in 1 .. Len(chain) : cmd_buffer.bbo[chain[i]].num_relocs >= 0
  /\ UNION {SliceOf(chain[i]) : i \in 1 .. Len(chain)} = 1 .. Len(list)

\* C33: when anv_EndCommandBuffer has returned, in the primary chain and in
\* the surface-state chain the slices [first_reloc, first_reloc +
\* num_relocs) of the nodes are pairwise disjoint, follow one another from
\* the oldest node on, and together cover the chain's relocation list.
C33_SlicesPartitionLists ==
  call.op = "End" /\ pc = "Executable" =>
    /\ SlicesPartition(PrimaryChain(cmd_buffer), cmd_buffer.batch_relocs)
    /\ SlicesPartition(SurfaceChain(cmd_buffer), cmd_buffer.surface_relocs)

\* an ended command buffer in which both chains have grown and every node
\* of either chain owns entries
C33_Witness ==
  /\ call.op = "End" /\ pc = "Executable"
  /\ Len(PrimaryChain(cmd_buffer)) > 1
  /\ Len(SurfaceChain(cmd_buffer)) > 1
  /\ \A b \in Range(PrimaryChain(cmd_buffer)) \cup Range(SurfaceChain(cmd_buffer)) :
        SliceOf(b) # {}

\* ---------------------------------------------------------------------
\* the object array of anv_EndCommandBuffer
\* ---------------------------------------------------------------------

\* the object of block b in the array of command buffer cb
ObjectOf(cb, b) == cb.exec2_objects[Position(cb.exec2_bos, b)]

\* the array of cb holds its chain nodes and relocation targets, each once
EachBlockOnce(cb) ==
  /\ Range(cb.exec2_bos) = OwnBbos(cb) \cup Targets(cb)
  /\ \A i, j \in 1 .. Len(cb.exec2_bos) :
        cb.exec2_bos[i] = cb.exec2_bos[j] => i = j
  /\ Len(cb.exec2_objects) = Len(cb.exec2_bos)
  /\ \A i \in 1 .. Len(cb.exec2_bos) :
        cb.exec2_objects[i].handle = cb.exec2_bos[i]

\* the object of every node of the chain carries the node's slice of list
NodesCarrySlices(cb, chain, list) ==
  \A b \in Range(chain) :
     /\ ObjectOf(cb, b).relocs_list = list
     /\ ObjectOf(cb, b).relocs_first = cb.bbo[b].first_reloc
     /\ ObjectOf(cb, b).relocation_count = cb.bbo[b].num_relocs

\* the thread has built its array and processed its relocations
ArrayBuilt(t) == thread[t].pc \in {"Unlock", "Returned"}

\* C34: once a thread's anv_EndCommandBuffer has built the object array,
\* the array holds every chain node and every relocation target of the
\* command buffer exactly once, the object of every chain node carries
\* that node's slice of its chain's relocation list, and no other object
\* carries relocations; until the thread releases the mutex the index
\* field of the block at position i is i. bo->index starts with the
\* values an earlier end has left and the other thread's end changes it.
C34_ArrayHoldsEachBlockOnce ==
  \A t \in Threads :
     ArrayBuilt(t) =>
       LET cb == thread[t].cb
       IN /\ EachBlockOnce(cb)
          /\ NodesCarrySlices(cb, PrimaryChain(cb), "batch")
          /\ NodesCarrySlices(cb, SurfaceChain(cb), "surface")
          /\ \A b \in Range(cb.exec2_bos) \ OwnBbos(cb) :
                ObjectOf(cb, b).relocation_count = 0
          /\ thread[t].pc = "Unlock" =>
                \A i \in 1 .. Len(cb.exec2_bos) :
                   bo_index[cb.exec2_bos[i]] = i - 1

\* C34 witness: the second thread has built its array after the first has
\* returned, its batch has chained, and the image both command buffers
\* reference sits at another position than in the first thread's array
C34_Witness ==
  /\ thread[1].pc = "Returned"
  /\ thread[2].pc = "Unlock"
  /\ Len(PrimaryChain(thread[2].cb)) >= 2
  /\ IMAGE_BO \in CommonBlocks
  /\ Position(thread[1].cb.exec2_bos, IMAGE_BO)
       # Position(thread[2].cb.exec2_bos, IMAGE_BO)
  /\ \E b \in Range(PrimaryChain(thread[2].cb)) :
        thread[2].cb.bbo[b].first_reloc > 0

\* ---------------------------------------------------------------------
\* the cursor of the command buffer's batch
\* ---------------------------------------------------------------------

\* the dwords of a block before the room kept for the jump
RoomDwords == BATCH_SIZE \div 4 - GEN8_MI_BATCH_BUFFER_START_length

\* the sizes in dwords that take the cursor to the last positions before
\* batch->end and across it
EdgeSizes == 1 .. 3 \cup RoomDwords - 3 .. RoomDwords

\* one anv_batch_emit of a size that leaves the cursor near batch->end
BatchEmitEdge ==
  /\ pc = "Recording"
  /\ \E n \in EdgeSizes :
       Returns(anv_batch_emit(Enter(cmd_buffer), InstrN("EMIT", n, <<>>)),
               "BatchEmitEdge", n, "Recording", 1)
  /\ UNCHANGED <<bo_offset, bo_index>>

\* calls the application chooses freely, in SpecEdge
MaxEdgeCalls == 3

InitEdge == InitWith(MaxEdgeCalls)

NextEdge == Create \/ Begin \/ BatchEmitEdge \/ End \/ Reset

\* SpecEdge: recordings whose emits end near the end of a block
SpecEdge == InitEdge /\ [][NextEdge]_vars

\* batch->start <= batch->next <= batch->end, and batch->end is the end of
\* the block less the room of the jump
CursorInBounds ==
  /\ 0 <= cmd_buffer.batch_next
  /\ cmd_buffer.batch_next <= cmd_buffer.batch_end
  /\ cmd_buffer.batch_end
       = BATCH_SIZE - GEN8_MI_BATCH_BUFFER_START_length * 4

\* the nodes of the primary chain the chaining callback has left
LeftNodes == Range(PrimaryChain(cmd_buffer)) \ {cmd_buffer.last_batch_bo}

\* the jump of node b and the padding after it lie inside the block, and
\* the length of the node is at most the block
JumpFits(b) ==
  /\ WithinBlock(b)
  /\ \E i \in 1 .. Len(cmd_buffer.bbo[b].data) :
        /\ cmd_buffer.bbo[b].data[i].op = "MI_BATCH_BUFFER_START"
        /\ cmd_buffer.bbo[b].data[i].chain
  /\ cmd_buffer.bbo[b].length <= BATCH_SIZE
  /\ \A i \in 1 .. Len(cmd_buffer.bbo[b].data) :
        cmd_buffer.bbo[b].data[i].off + cmd_buffer.bbo[b].data[i].dw * 4
          <= cmd_buffer.bbo[b].length

\* C35: in every state of a created command buffer in which no assertion
\* has failed, the cursor of the batch satisfies start <= next <= end and
\* end is the end of the block less the length of the jump; every node the
\* chaining callback has left holds its jump and the padding inside its
\* block, and its length is at most the size of the block.
C35_CursorStaysInBlock ==
  pc \notin {"Initial", "Aborted"} =>
     /\ CursorInBounds
     /\ \A b \in LeftNodes : JumpFits(b)

\* C35 witness: an emit found the cursor one dword before end and did not
\* fit; the jump started in the last dword before the reserve, the padding
\* dword followed it, and the node left is as long as its block
C35_Witness ==
  /\ call.op = "BatchEmitEdge" /\ pc = "Recording"
  /\ call.pre.batch_next = call.pre.batch_end - 4
  /\ cmd_buffer.batch_start # call.pre.batch_start
  /\ cmd_buffer.bbo[call.pre.batch_start].length = BATCH_SIZE
  /\ \E i \in 1 .. Len(cmd_buffer.bbo[call.pre.batch_start].data) :
        cmd_buffer.bbo[call.pre.batch_start].data[i].op = "PAD"

\* ---------------------------------------------------------------------
\* the entries of the binding tables
\* ---------------------------------------------------------------------

\* the stage of a 3DSTATE_BINDING_TABLE_POINTERS with sub-opcode sub
StageOfTable(sub) ==
  CHOOSE s \in GraphicsStages : binding_table_opcodes[s] = sub

\* the number of entries of the table of the stage: the bias of the
\* render targets and the surfaces of the layout
TableLength(cb, stage) ==
  (IF stage = VK_SHADER_STAGE_FRAGMENT THEN MAX_RTS ELSE 0)
  + (IF StageLayout(cb, stage) # NULL
     THEN PipelineLayouts[StageLayout(cb, stage)].stage[stage].surface_count
     ELSE 0)

\* the 3DSTATE_BINDING_TABLE_POINTERS the last call emitted
CallTablePointers ==
  {i \in 1 .. Len(CallLog) :
     CallLog[i].ins.op = "3DSTATE_BINDING_TABLE_POINTERS"}

\* the value of entry e of the table the instruction refers to
TableEntry(ins, e) ==
  ReadWord(cmd_buffer.bbo[ins.ref].mem, ins.val \div 4 + e)

\* the offsets of the surface states the last call allocated in block b
CallSurfaceStates(b) ==
  {cmd_buffer.g_states[k].offset : k \in
     {j \in 1 .. Len(cmd_buffer.g_states) :
        /\ cmd_buffer.g_states[j].kind = "surface"
        /\ cmd_buffer.g_states[j].bbo = b}}

\* C36: after a draw, every entry of every binding table that a
\* 3DSTATE_BINDING_TABLE_POINTERS of the call refers to is 0 or the offset
\* of a surface state the flush of the call allocated in the table's block.
C36_EntriesAreZeroOrFresh ==
  (call.op \in DrawOps /\ Returned) =>
     \A i \in CallTablePointers :
        \A e \in 0 .. TableLength(cmd_buffer,
                                  StageOfTable(CallLog[i].ins.sub)) - 1 :
           \/ TableEntry(CallLog[i].ins, e) = 0
           \/ TableEntry(CallLog[i].ins, e)
                \in CallSurfaceStates(CallLog[i].ins.ref)

\* ---------------------------------------------------------------------
\* struct anv_vector (anv_util.c 148-214)
\* ---------------------------------------------------------------------

\* <<element_size, size>> of anv_vector_init: powers of two, the element
\* smaller than the storage
VectorSizes == { <<1, 2>>, <<2, 4>>, <<1, 4>> }

\* bound on the elements added to the vector
MaxElements == 6

\* memcpy(dst + to, src + from, n) on byte arrays
Memcpy(dst, to, src, from, n) ==
  [i \in 1 .. Len(dst) |->
     IF to < i /\ i <= to + n THEN src[i - to + from] ELSE dst[i]]

\* malloc(size): bytes of any content, here all junk
Malloc(size, junk) == [i \in 1 .. size |-> junk]

\* anv_vector_init
anv_vector_init(element_size, size, junk) ==
  [head |-> 0, tail |-> 0, element_size |-> element_size, size |-> size,
   data |-> Malloc(size, junk)]

\* the growth of anv_vector_add: storage of twice the size, the elements
\* from tail to the end of the old storage copied to the same offset and
\* those wrapped to its start copied behind them
VectorGrow(v, junk) ==
  LET size == v.size * 2
      data == Malloc(size, junk)
      split == align_u32(v.tail, v.size)
      tail == v.tail % v.size
  IN [v EXCEPT
        !.size = size,
        !.data = IF v.head - split < v.size
                 THEN Memcpy(Memcpy(data, tail, v.data, tail, split - v.tail),
                             v.size, v.data, 0, v.head - split)
                 ELSE Memcpy(data, tail, v.data, tail, v.head - v.tail)]

\* anv_vector_add: the vector after the call and the offset in data of the
\* element returned, ret = NULL for no element (ok: malloc succeeds)
anv_vector_add(v, junk, ok) ==
  LET Added(w) ==
        [v |-> [w EXCEPT !.head = w.head + w.element_size],
         null |-> FALSE, offset |-> w.head % w.size]
  IN IF v.head - v.tail = v.size
     THEN IF ok THEN Added(VectorGrow(v, junk))
          ELSE [v |-> v, null |-> TRUE, offset |-> 0]
     ELSE Added(v)

\* anv_vector_remove
anv_vector_remove(v) ==
  IF v.head = v.tail
  THEN [v |-> v, null |-> TRUE, offset |-> 0]
  ELSE [v |-> [v EXCEPT !.tail = v.tail + v.element_size],
        null |-> FALSE, offset |-> v.tail % v.size]

\* the caller stores element e in the element_size bytes at offset
StoreElement(v, offset, e) ==
  [v EXCEPT !.data = [i \in 1 .. Len(v.data) |->
                        IF offset < i /\ i <= offset + v.element_size
                        THEN e ELSE v.data[i]]]

\* the element_size bytes at offset
LoadElement(v, offset) ==
  [k \in 1 .. v.element_size |-> v.data[offset + k]]

\* a vector just initialised; ghost: g_queue is the elements added and not
\* yet removed, oldest first, g_next the next element to add, and op, null,
\* read and pre describe the last call
InitVector ==
  /\ pc = "Initial"
  /\ cmd_buffer = NoCmdBuffer
  /\ bo_offset = [b \in Bos |-> 0]
  /\ bo_index = [b \in Bos |-> 0]
  /\ call = [op |-> "", arg |-> 0, pre |-> Pre(NoCmdBuffer), prev |-> ""]
  /\ mutex = NULL
  /\ thread = <<>>
  /\ PipelineLayouts = CreatedPipelineLayouts
  /\ lists = <<>>
  /\ \E s \in VectorSizes, junk \in Junk :
       vector = [v |-> anv_vector_init(s[1], s[2], junk),
                 g_queue |-> <<>>, g_next |-> 1,
                 op |-> "init", null |-> FALSE, read |-> <<>>,
                 pre |-> anv_vector_init(s[1], s[2], junk),
                 pre_queue |-> <<>>, grew |-> FALSE]

\* anv_vector_add, and the caller stores the next element in the slot
VectorAdd ==
  /\ vector.g_next <= MaxElements
  /\ \E junk \in Junk, ok \in BOOLEAN :
       LET r == anv_vector_add(vector.v, junk, ok)
       IN vector' =
            [v |-> IF r.null THEN r.v
                   ELSE StoreElement(r.v, r.offset, vector.g_next),
             g_queue |-> IF r.null THEN vector.g_queue
                         ELSE Append(vector.g_queue, vector.g_next),
             g_next |-> IF r.null THEN vector.g_next ELSE vector.g_next + 1,
             op |-> "add", null |-> r.null, read |-> <<>>,
             pre |-> vector.v, pre_queue |-> vector.g_queue,
             grew |-> r.v.size # vector.v.size]
  /\ UNCHANGED <<pc, cmd_buffer, bo_offset, bo_index, call, mutex, thread,
                 PipelineLayouts, lists>>

\* anv_vector_remove, and the caller reads the slot
VectorRemove ==
  /\ LET r == anv_vector_remove(vector.v)
     IN vector' =
          [v |-> r.v,
           g_queue |-> IF vector.g_queue = <<>> THEN <<>>
                       ELSE Tail(vector.g_queue),
           g_next |-> vector.g_next,
           op |-> "remove", null |-> r.null,
           read |-> IF r.null THEN <<>> ELSE LoadElement(r.v, r.offset),
           pre |-> vector.v, pre_queue |-> vector.g_queue,
           grew |-> FALSE]
  /\ UNCHANGED <<pc, cmd_buffer, bo_offset, bo_index, call, mutex, thread,
                 PipelineLayouts, lists>>

NextVector == VectorAdd \/ VectorRemove

\* SpecVector: any sequence of adds and removes on one vector
SpecVector == InitVector /\ [][NextVector]_vars

\* C37: the vector is a FIFO queue.  A remove from a vector that holds
\* elements returns the slot of the oldest element not yet removed, with
\* the content stored in it, whatever adds have doubled the storage since;
\* a remove from an empty vector returns NULL and leaves the vector as it
\* was.
C37_VectorIsFifo ==
  vector.op = "remove" =>
     IF vector.pre_queue = <<>>
     THEN vector.null /\ vector.v = vector.pre
     ELSE /\ ~vector.null
          /\ \A k \in 1 .. Len(vector.read) :
                vector.read[k] = vector.pre_queue[1]

\* ---------------------------------------------------------------------
\* the subpasses of a render pass
\* ---------------------------------------------------------------------

\* anv_CmdNextSubpass, while the subpass the call makes current is one of
\* the pass (beyond them the call reads past pass->subpasses); arg is the
\* subpass before the call
NextSubpass ==
  /\ pc = "InPass"
  /\ cmd_buffer.subpass + 2 <= Len(Passes[cmd_buffer.pass].subpasses)
  /\ Returns(anv_CmdNextSubpass(Enter(cmd_buffer)), "NextSubpass",
             cmd_buffer.subpass, pc, 1)
  /\ UNCHANGED <<bo_offset, bo_index>>

\* calls the application chooses freely, in SpecPass
MaxPassCalls == 4

InitPass == InitWith(MaxPassCalls)

NextPass ==
  Create \/ Begin \/ BatchEmit \/ BeginRenderPass \/ NextSubpass \/ Reset

\* SpecPass: recordings that walk the subpasses of a render pass
SpecPass == InitPass /\ [][NextPass]_vars

\* C38: anv_CmdNextSubpass makes the subpass after the current one the
\* current subpass, and marks the descriptors of the fragment stage dirty.
C38_NextSubpassAdvancesByOne ==
  (call.op = "NextSubpass" /\ Returned) =>
     /\ cmd_buffer.subpass = call.arg + 1
     /\ VK_SHADER_STAGE_FRAGMENT \in cmd_buffer.descriptors_dirty

\* ---------------------------------------------------------------------
\* the recorded capacity of a relocation list
\* ---------------------------------------------------------------------

\* the entries the last call asked anv_reloc_list_grow to make room for
Additional ==
  IF lists.op = "add" THEN 1
  ELSE IF lists.op = "append" THEN lists.pre_other.num_relocs
  ELSE 0

\* the last call replaced the arrays of the list: anv_reloc_list_grow went
\* past its first test
Reallocated ==
  /\ lists.op \in {"add", "append"}
  /\ lists.pre_list.num_relocs + Additional > lists.pre_list.array_length

\* C39: the array_length of a relocation list is the length of its arrays,
\* also after anv_reloc_list_grow replaced them, and an add or append
\* replaces the arrays only when the entries it makes room for do not fit
\* in the arrays the list has.
C39_CapacityIsRecorded ==
  /\ lists.list.array_length = Len(lists.list.relocs)
  /\ Reallocated =>
       lists.pre_list.num_relocs + Additional > Len(lists.pre_list.relocs)

====
